---- MODULE Spec2Model ----
(***************************************************************************)
(* bus-queue: the ring buffer (src/ring_buffer.rs), its publisher and      *)
(* subscriber handles (src/publisher.rs, src/subscriber.rs) and the async  *)
(* adapters (src/async_publisher.rs, src/async_subscriber.rs), modelled at *)
(* the granularity of one shared-memory access per step, with the strong   *)
(* counts of the Arcs the slots hand out (src/swap_slot.rs).               *)
(***************************************************************************)
EXTENDS Integers, Sequences, FiniteSets, TLC

\* ------------------------------------------------------------------ bounds
\* capacities passed to bounded(size) are 1..MaxCap
MaxCap == 2
\* number of broadcast calls the publisher makes
MaxBroadcasts == 3
\* width of the index counters (usize scaled down to IndexBits bits)
IndexBits == 4

UsizeMod == 2 ^ IndexBits

\* the subscriber handles: the one made by the constructor and one clone
Subs == {1, 2}

\* the threads that call through a shared reference to one handle
Threads == {1, 2}

\* the writer of an AtomicArc beside the threads that read it
Writer == 0

HThreads == {Writer} \cup Threads

\* the hazard slots of a ThreadEntry that are modelled (of its six)
HazardSlots == {1, 2}

\* the null pointer, the value that marks a hazard slot as responsible for
\* the drop, and the addresses at which the allocator places objects
NullPtr == 0

Responsible == 1

Objects == {2, 3}

\* BareSubscriber.sub_cnt: the Arc<AtomicCounter> made by bare_channel, which
\* the BarePublisher holds too and whose value is sub_count, or an
\* Arc<AtomicCounter> of the handle's own holding n
ChannelCnt == [arc |-> "channel", count |-> 0]

OwnCnt(n) == [arc |-> "own", count |-> n]

\* content of a slot made by SwapSlot::none()
NoItem == 0

\* the item left in slot i by a broadcast made before the modelled ones
OldItem(i) == 0 - (i + 1)

\* how far below the top of the index range a long-running channel starts
MaxBelowTop == 2

VARIABLES
    flavor,        \* "bounded", "async_bounded", or "iter": bounded, read
                   \* through Iterator; or the flavour of a slot on its own
    size,          \* RingBuffer.size
    buffer,        \* RingBuffer.buffer: slot index -> item or NoItem
    wi,            \* RingBuffer.wi
    sub_count,     \* RingBuffer.sub_count
    is_available,  \* RingBuffer.is_available
    ppc,           \* publisher: position in the operation in progress
    object,        \* publisher: argument of the broadcast in progress
    pres,          \* publisher: last operation and its result
    ncalls,        \* publisher: number of broadcast calls made
    status,        \* subscriber handle: "unborn", "live" or "dropped"
    ri,            \* Subscriber.ri
    skip_items,    \* Subscriber.skip_items
    spc,           \* subscriber: position in the call in progress
    val,           \* subscriber: local `val` of try_recv
    res,           \* subscriber: result of the last call
    listener,      \* AsyncSubscriber.listener: "none", "waiting", "notified"
    sent,          \* history: items stored, by position
    recvd,         \* history: items each subscriber received
    ri0,           \* history: read cursor the handle was created with
    drain,         \* history: how the subscriber's reading started
    behind,        \* history: subscribers seen more than len() behind in a call
    owed,          \* history: subscribers parked at a broadcast, not yet woken
    nwi,           \* history: write index at the last notify_all
    rc,            \* Arc: strong count of each item allocated so far
    held,          \* callers: the Arcs each subscriber's caller got and keeps
    bpc,           \* thread sharing the publisher: position in its broadcast
    bobj,          \* thread sharing the publisher: argument of its broadcast
    bidx,          \* thread sharing the publisher: the wi.get() of its store
    rpc,           \* thread sharing subscriber 1: position in its try_recv
    local_ri,      \* thread sharing subscriber 1: `local_ri` of try_recv
    rval,          \* thread sharing subscriber 1: `val` of try_recv
    rres,          \* thread sharing subscriber 1: result of its last call
    atomic_object, \* AtomicArc.object: the pointer the slot holds
    slots,         \* ThreadEntry.slots of each reader thread: hazard values
    strong,        \* Arc: strong count of the object at each address
    shared_arcs,   \* reader thread: the SharedArcs it got from get() and keeps
    hpc,           \* thread: position in get, set or Drop for SharedArc
    hobj,          \* reader thread: local `object` of get
    hslot,         \* reader thread: local `slot` of get
    dobj,          \* thread: SharedArc.object of the SharedArc being dropped
    dpos,          \* thread: how far try_transfer_drop_responsibility has got
    dret,          \* thread: where it goes on after the drop
    nsets,         \* writer: number of set calls made
    kept,          \* reader thread: the Arcs it got from clone_inner and keeps
    sub_cnt        \* BareSubscriber.sub_cnt: the counter the handle points to

ring == <<size, buffer, wi, sub_count, is_available>>
pub  == <<ppc, object, pres, ncalls>>
sub  == <<status, ri, skip_items, spc, val, res>>
hist == <<sent, recvd, ri0, drain, behind>>
ahist == <<owed, nwi>>
arcs == <<rc, held>>
writers == <<bpc, bobj, bidx>>
readers == <<rpc, local_ri, rval, rres>>
shared == <<writers, readers>>
hazard == <<atomic_object, slots, strong, shared_arcs, hpc, hobj, hslot, dobj, dpos,
            dret, nsets, kept>>
bare == <<sub_cnt>>
ext == <<shared, hazard, bare>>
vars == <<flavor, ring, pub, sub, listener, hist, ahist, arcs, ext>>

\* ---------------------------------------------------------------- helpers
\* usize::wrapping_sub / wrapping_add
wrapping_sub(a, b) == (a - b + UsizeMod) % UsizeMod
wrapping_add(a, b) == (a + b) % UsizeMod

Min(a, b) == IF a <= b THEN a ELSE b
Max(a, b) == IF a >= b THEN a ELSE b

\* RingBuffer::len
len == size - 1

Result(t, v) == [tag |-> t, val |-> v]

\* Arc::new(v) in SwapSlot::store: a new allocation with strong count 1
ArcNew(c, v) == (v :> 1) @@ c

\* Arc::clone in SwapSlot::load, of the content v of a slot
ArcClone(c, v) == IF v = NoItem THEN c ELSE [c EXCEPT ![v] = @ + 1]

\* the drop of an Option<Arc> v
ArcDrop(c, v) == IF v = NoItem THEN c ELSE [c EXCEPT ![v] = @ - 1]
PResult(o, t, v) == [op |-> o, tag |-> t, val |-> v]

\* ------------------------------------------------------------ construction
\* the threads of T that share a handle of the channel, none of them inside
\* a call; T is empty where every handle is used by one thread
SharersInit(T) ==
    /\ bpc = [p \in T |-> "idle"]
    /\ bobj = [p \in T |-> NoItem]
    /\ bidx = [p \in T |-> 0]
    /\ rpc = [t \in T |-> "idle"]
    /\ local_ri = [t \in T |-> 0]
    /\ rval = [t \in T |-> NoItem]
    /\ rres = [t \in T |-> Result("none", NoItem)]

\* AtomicArc::new(None) used by the threads of H, the writer among them, with
\* the addresses O to allocate at; H and O are empty where there is no
\* AtomicArc
AtomicArcInit(H, O) ==
    /\ atomic_object = NullPtr
    /\ slots = [t \in H \ {Writer} |-> [i \in HazardSlots |-> 0]]
    /\ strong = [o \in O |-> 0]
    /\ shared_arcs = [t \in H \ {Writer} |-> <<>>]
    /\ hpc = [t \in H |-> "idle"]
    /\ hobj = [t \in H \ {Writer} |-> NullPtr]
    /\ hslot = [t \in H \ {Writer} |-> 1]
    /\ dobj = [t \in H |-> NullPtr]
    /\ dpos = [t \in H |-> 1]
    /\ dret = [t \in H |-> "idle"]
    /\ nsets = 0
    /\ kept = [t \in H \ {Writer} |-> <<>>]

\* bare_channel: the sub_cnt of the handles of S, the first subscriber
\* pointing to the channel's counter; S is empty for the other channels
BareCntInit(S) ==
    sub_cnt = [s \in S |-> IF s = 1 THEN ChannelCnt ELSE OwnCnt(0)]

\* a channel made by constructor f whose write index has reached w and whose
\* subscriber has read up to r, the caller keeping none of the items
InitChannel(f, w, r) ==
    /\ flavor = f
    /\ size \in {n + 1 : n \in 1..MaxCap}
    /\ buffer = [i \in 0..(size - 1) |-> IF w = 0 THEN NoItem ELSE OldItem(i)]
    /\ wi = w
    /\ sub_count = 1
    /\ is_available = TRUE
    /\ ppc = "idle"
    /\ object = NoItem
    /\ pres = PResult("none", "none", NoItem)
    /\ ncalls = 0
    /\ status = [s \in Subs |-> IF s = 1 THEN "live" ELSE "unborn"]
    /\ ri = [s \in Subs |-> r]
    /\ skip_items = [s \in Subs |-> 0]
    /\ spc = [s \in Subs |-> "idle"]
    /\ val = [s \in Subs |-> NoItem]
    /\ res = [s \in Subs |-> Result("none", NoItem)]
    /\ listener = [s \in Subs |-> "none"]
    /\ sent = <<>>
    /\ recvd = [s \in Subs |-> <<>>]
    /\ ri0 = [s \in Subs |-> r]
    /\ drain = [s \in Subs |-> "no"]
    /\ behind = {}
    /\ owed = {}
    /\ nwi = w
    /\ rc = [v \in {b \in {OldItem(i) : i \in 0..(size - 1)} : w # 0} |-> 1]
    /\ held = [s \in Subs |-> <<>>]

\* the channel alone: every handle used by one thread, no AtomicArc, no
\* counters of the bare channel
InitRead(f, w, r) ==
    /\ InitChannel(f, w, r)
    /\ SharersInit({})
    /\ AtomicArcInit({}, {})
    /\ BareCntInit({})

\* a channel made by constructor f whose write index has reached w, every
\* item published so far read by its subscriber; for w = 0 the state made by
\* RingBuffer::new, Subscriber::from, bounded / async_bounded
InitAt(f, w) == InitRead(f, w, w)

\* RingBuffer::new, Subscriber::from, bounded / async_bounded
InitWith(f) == InitAt(f, 0)

Init == InitWith("bounded")

\* ------------------------------------------------------------- history
\* subscribers that are inside a call and more than len() positions behind
Lagging(w, r, pc) ==
    {s \in Subs : pc[s] # "idle" /\ wrapping_sub(w, r[s]) > len}

\* ---------------------------------------------------------- RingBuffer
\* the entry of broadcast, refusing when `refuse` holds
BroadcastEnter(refuse) ==
    /\ ppc = "idle"
    /\ ncalls < MaxBroadcasts
    /\ ncalls' = ncalls + 1
    /\ IF refuse
       THEN /\ pres' = PResult("broadcast", "Err", ncalls + 1)
            /\ UNCHANGED <<ppc, object, drain>>
       ELSE /\ ppc' = "store"
            /\ object' = ncalls + 1
            /\ drain' = [s \in Subs |->
                            IF drain[s] \in {"open", "closed"} THEN "bad" ELSE drain[s]]
            /\ UNCHANGED pres
    /\ UNCHANGED <<flavor, ext, arcs, ring, sub, listener, sent, recvd, ri0, behind, ahist>>

\* mutant: a full ring (a live subscriber len() behind) refuses the broadcast
broadcast_enter_full ==
    BroadcastEnter(\/ sub_count = 0
                   \/ \E s \in Subs : status[s] = "live"
                                       /\ wrapping_sub(wi, ri[s]) >= len)

\* mutant: no sub_count check
broadcast_enter_nocheck == BroadcastEnter(FALSE)

\* broadcast, the sub_count check
broadcast_enter == BroadcastEnter(sub_count = 0)

\* the store of broadcast, into slot i
BroadcastStore(i) ==
    /\ ppc = "store"
    /\ buffer' = [buffer EXCEPT ![i] = object]
    /\ rc' = ArcNew(ArcDrop(rc, buffer[i]), object)
    /\ sent' = Append(sent, object)
    /\ object' = NoItem
    /\ ppc' = "inc"
    /\ UNCHANGED <<flavor, ext, held, size, wi, sub_count, is_available, pres, ncalls,
                   sub, listener, recvd, ri0, drain, behind, ahist>>

\* mutant: the store leaves the Arc it replaces alive
broadcast_store_leak ==
    /\ ppc = "store"
    /\ buffer' = [buffer EXCEPT ![wi % size] = object]
    /\ rc' = ArcNew(rc, object)
    /\ sent' = Append(sent, object)
    /\ object' = NoItem
    /\ ppc' = "inc"
    /\ UNCHANGED <<flavor, ext, held, size, wi, sub_count, is_available, pres, ncalls,
                   sub, listener, recvd, ri0, drain, behind, ahist>>

\* mutant: the slot is taken one too far
broadcast_store_next == BroadcastStore((wi + 1) % size)

\* broadcast, buffer[wi % size].store(object)
broadcast_store == BroadcastStore(wi % size)

\* broadcast, wi.inc() and return Ok
broadcast_inc ==
    /\ ppc = "inc"
    /\ wi' = wrapping_add(wi, 1)
    /\ pres' = PResult("broadcast", "Ok", NoItem)
    /\ ppc' = "idle"
    /\ behind' = behind \cup Lagging(wi', ri, spc)
    /\ owed' = owed \cup {s \in Subs : status[s] = "live" /\ spc[s] = "idle"
                                        /\ listener[s] = "waiting"}
    /\ UNCHANGED <<flavor, ext, arcs, size, buffer, sub_count, is_available, object, ncalls,
                   sub, listener, sent, recvd, ri0, drain, nwi>>

\* mutant: close flips the flag
close_toggle ==
    /\ ppc = "idle"
    /\ is_available' = ~is_available
    /\ UNCHANGED <<flavor, ext, arcs, size, buffer, wi, sub_count, pub,
                   sub, listener, hist, ahist>>

\* RingBuffer::close through Publisher::close
close ==
    /\ ppc = "idle"
    /\ is_available' = FALSE
    /\ UNCHANGED <<flavor, ext, arcs, size, buffer, wi, sub_count, pub,
                   sub, listener, hist, ahist>>

\* Drop for Publisher
drop_publisher ==
    /\ ppc = "idle"
    /\ is_available' = FALSE
    /\ ppc' = "dropped"
    /\ UNCHANGED <<flavor, ext, arcs, size, buffer, wi, sub_count, object, pres, ncalls,
                   sub, listener, hist, ahist>>

\* mutant: the result of try_recv is handed on as it is
ReadyOfUnmapped(r) == r

\* poll_next, the value returned for the result r of try_recv
ReadyOf(r) ==
    IF r.tag = "Ok" THEN Result("ReadySome", r.val)
    ELSE Result("ReadyNone", NoItem)

\* mutant: next hands on the result of try_recv as it is
ok_unmapped(r) == r

\* Iterator::next, Result::ok of the result r of try_recv
ok(r) ==
    IF r.tag = "Ok" THEN Result("Some", r.val)
    ELSE Result("None", NoItem)

\* what the caller of try_recv does with its result r
Return(s, r) ==
    IF flavor = "bounded"
    THEN /\ res' = [res EXCEPT ![s] = r]
         /\ spc' = [spc EXCEPT ![s] = "idle"]
         /\ UNCHANGED <<listener, owed>>
    ELSE IF flavor = "iter"
    THEN /\ res' = [res EXCEPT ![s] = ok(r)]
         /\ spc' = [spc EXCEPT ![s] = "idle"]
         /\ UNCHANGED <<listener, owed>>
    ELSE IF r.tag = "Empty"
    THEN /\ spc' = [spc EXCEPT ![s] = "listen"]
         /\ UNCHANGED <<res, listener, owed>>
    ELSE /\ listener' = [listener EXCEPT ![s] = "none"]
         /\ res' = [res EXCEPT ![s] = ReadyOf(r)]
         /\ spc' = [spc EXCEPT ![s] = "idle"]
         /\ owed' = owed \ {s}

\* mutant: Disconnected as soon as the publisher is gone, unread items or not
try_recv_enter_avail_first(s) ==
    /\ status[s] = "live"
    /\ \/ flavor # "async_bounded" /\ spc[s] = "idle"
       \/ flavor = "async_bounded" /\ spc[s] = "start"
    /\ IF ~is_available
       THEN Return(s, Result("Disconnected", NoItem))
       ELSE /\ spc' = [spc EXCEPT ![s] = IF ri[s] = wi THEN "avail" ELSE "load"]
            /\ UNCHANGED <<res, listener, owed>>
    /\ drain' = [drain EXCEPT ![s] =
                    IF @ # "no" THEN @
                    ELSE IF ppc \in {"idle", "dropped"} /\ skip_items[s] = 0
                              /\ ri[s] = 0
                         THEN (IF is_available THEN "open" ELSE "closed")
                         ELSE "bad"]
    /\ behind' = behind \cup Lagging(wi, ri, spc')
    /\ UNCHANGED <<flavor, ext, arcs, ring, pub, status, ri, skip_items, val,
                   sent, recvd, ri0, nwi>>

\* try_recv, the test ri.get() == wi.get()
try_recv_enter(s) ==
    /\ status[s] = "live"
    /\ \/ flavor # "async_bounded" /\ spc[s] = "idle"
       \/ flavor = "async_bounded" /\ spc[s] = "start"
    /\ spc' = [spc EXCEPT ![s] = IF ri[s] = wi THEN "avail" ELSE "load"]
    /\ drain' = [drain EXCEPT ![s] =
                    IF @ # "no" THEN @
                    ELSE IF ppc \in {"idle", "dropped"} /\ skip_items[s] = 0
                              /\ ri[s] = 0
                         THEN (IF is_available THEN "open" ELSE "closed")
                         ELSE "bad"]
    /\ behind' = behind \cup Lagging(wi, ri, spc')
    /\ UNCHANGED <<flavor, ext, arcs, ring, pub, status, ri, skip_items, val, res, listener,
                   sent, recvd, ri0, ahist>>

\* try_recv, the test is_available() and the two error returns
try_recv_avail(s) ==
    /\ spc[s] = "avail"
    /\ Return(s, IF is_available THEN Result("Empty", NoItem)
                 ELSE Result("Disconnected", NoItem))
    /\ UNCHANGED <<flavor, ext, arcs, ring, pub, status, ri, skip_items, val, hist, nwi>>

\* mutant: the load takes the item out of the slot
try_recv_load_take(s) ==
    /\ spc[s] = "load"
    /\ val' = [val EXCEPT ![s] = buffer[ri[s] % size]]
    /\ buffer' = [buffer EXCEPT ![ri[s] % size] = NoItem]
    /\ spc' = [spc EXCEPT ![s] = "check"]
    /\ UNCHANGED <<flavor, ext, arcs, size, wi, sub_count, is_available, pub, status, ri,
                   skip_items, res, listener, hist, ahist>>

\* mutant: the load hands out the slot's Arc without counting the new owner
try_recv_load_noclone(s) ==
    /\ spc[s] = "load"
    /\ val' = [val EXCEPT ![s] = buffer[ri[s] % size]]
    /\ spc' = [spc EXCEPT ![s] = "check"]
    /\ UNCHANGED <<flavor, ext, arcs, ring, pub, status, ri, skip_items, res, listener,
                   hist, ahist>>

\* try_recv, local_ri = ri.get(); val = buffer[local_ri % size].load()
try_recv_load(s) ==
    /\ spc[s] = "load"
    /\ val' = [val EXCEPT ![s] = buffer[ri[s] % size]]
    /\ rc' = ArcClone(rc, buffer[ri[s] % size])
    /\ spc' = [spc EXCEPT ![s] = "check"]
    /\ UNCHANGED <<flavor, ext, held, ring, pub, status, ri, skip_items, res, listener,
                   hist, ahist>>

\* the lap test of try_recv with outcome `lapped`, and the branch that
\* returns Ok(val.unwrap())
TryRecvCheck(s, lapped) ==
    /\ spc[s] = "check"
    /\ IF lapped
       THEN /\ spc' = [spc EXCEPT ![s] = "set"]
            /\ UNCHANGED <<ri, val, res, listener, recvd, owed, held>>
       ELSE /\ ri' = [ri EXCEPT ![s] = wrapping_add(@, 1)]
            /\ val' = [val EXCEPT ![s] = NoItem]
            /\ IF val[s] = NoItem
               THEN /\ res' = [res EXCEPT ![s] = Result("Panic", NoItem)]
                    /\ spc' = [spc EXCEPT ![s] = "idle"]
                    /\ UNCHANGED <<listener, recvd, owed, held>>
               ELSE /\ Return(s, Result("Ok", val[s]))
                    /\ recvd' = [recvd EXCEPT ![s] = Append(@, val[s])]
                    /\ held' = [held EXCEPT ![s] = Append(@, val[s])]
    /\ UNCHANGED <<flavor, ext, rc, ring, pub, status, skip_items, sent, ri0, drain,
                   behind, nwi>>

\* mutant: the lap test is off by one, a lap of exactly size goes unseen
try_recv_check_gt(s) == TryRecvCheck(s, wrapping_sub(wi, ri[s]) > size)

\* mutant: the lap test uses len() for size
try_recv_check_len(s) == TryRecvCheck(s, wrapping_sub(wi, ri[s]) >= len)

\* try_recv, the lap test self.wi.get().wrapping_sub(local_ri) >= self.size
try_recv_check(s) == TryRecvCheck(s, wrapping_sub(wi, ri[s]) >= size)

\* the reposition of try_recv, to the index r
TryRecvSet(s, r) ==
    /\ spc[s] = "set"
    /\ ri' = [ri EXCEPT ![s] = r]
    /\ rc' = ArcDrop(rc, val[s])
    /\ spc' = [spc EXCEPT ![s] = "load"]
    /\ UNCHANGED <<flavor, ext, held, ring, pub, status, skip_items, val, res, listener,
                   sent, recvd, ri0, drain, behind, ahist>>

\* mutant: the reposition leaves the cursor where it is
try_recv_set_stay(s) == TryRecvSet(s, ri[s])

\* mutant: the reposition skips one item too many
try_recv_set_skips_one(s) ==
    TryRecvSet(s, wrapping_add(wrapping_sub(wi, size), 2 + skip_items[s]))

\* mutant: the reposition ignores skip_items
try_recv_set_noskip(s) ==
    TryRecvSet(s, wrapping_add(wrapping_sub(wi, size), 1))

\* try_recv, ri.set(wi.get().wrapping_sub(size).wrapping_add(1 + skip_items))
try_recv_set(s) ==
    TryRecvSet(s, wrapping_add(wrapping_sub(wi, size), 1 + skip_items[s]))

\* mutant: the requested number is stored as it is, not clamped
set_skip_items_noclamp(s, k) ==
    /\ status[s] = "live"
    /\ spc[s] = "idle"
    /\ skip_items' = [skip_items EXCEPT ![s] = k]
    /\ drain' = [drain EXCEPT ![s] =
                    IF @ \in {"open", "closed"} /\ skip_items'[s] # 0
                    THEN "bad" ELSE @]
    /\ UNCHANGED <<flavor, ext, arcs, ring, pub, status, ri, spc, val, res, listener,
                   sent, recvd, ri0, behind, ahist>>

\* ---------------------------------------------------------- Subscriber
\* Subscriber::set_skip_items
set_skip_items(s, k) ==
    /\ status[s] = "live"
    /\ spc[s] = "idle"
    /\ skip_items' = [skip_items EXCEPT ![s] = Min(k, len - 1)]
    /\ drain' = [drain EXCEPT ![s] =
                    IF @ \in {"open", "closed"} /\ skip_items'[s] # 0
                    THEN "bad" ELSE @]
    /\ UNCHANGED <<flavor, ext, arcs, ring, pub, status, ri, spc, val, res, listener,
                   sent, recvd, ri0, behind, ahist>>

\* mutant: Clone without inc_sub_count
clone_noinc(s, t) ==
    /\ status[s] = "live"
    /\ spc[s] = "idle"
    /\ status[t] = "unborn"
    /\ status' = [status EXCEPT ![t] = "live"]
    /\ ri' = [ri EXCEPT ![t] = ri[s]]
    /\ ri0' = [ri0 EXCEPT ![t] = ri[s]]
    /\ skip_items' = [skip_items EXCEPT ![t] = skip_items[s]]
    /\ UNCHANGED <<flavor, ext, arcs, ring, pub, spc, val, res,
                   listener, sent, recvd, drain, behind, ahist>>

\* mutant: the clone starts at 0 with skip_items 0, as Subscriber::from does
clone_from_start(s, t) ==
    /\ status[s] = "live"
    /\ spc[s] = "idle"
    /\ status[t] = "unborn"
    /\ sub_count' = wrapping_add(sub_count, 1)
    /\ status' = [status EXCEPT ![t] = "live"]
    /\ ri' = [ri EXCEPT ![t] = 0]
    /\ ri0' = [ri0 EXCEPT ![t] = 0]
    /\ skip_items' = [skip_items EXCEPT ![t] = 0]
    /\ UNCHANGED <<flavor, ext, arcs, size, buffer, wi, is_available, pub, spc, val, res,
                   listener, sent, recvd, drain, behind, ahist>>

\* mutant: a clone can be taken of a handle that was dropped
clone_of_dropped(s, t) ==
    /\ status[s] \in {"live", "dropped"}
    /\ spc[s] = "idle"
    /\ status[t] = "unborn"
    /\ sub_count' = wrapping_add(sub_count, 1)
    /\ status' = [status EXCEPT ![t] = "live"]
    /\ ri' = [ri EXCEPT ![t] = ri[s]]
    /\ ri0' = [ri0 EXCEPT ![t] = ri[s]]
    /\ skip_items' = [skip_items EXCEPT ![t] = skip_items[s]]
    /\ UNCHANGED <<flavor, ext, arcs, size, buffer, wi, is_available, pub, spc, val, res,
                   listener, sent, recvd, drain, behind, ahist>>

\* Clone for Subscriber
clone(s, t) ==
    /\ status[s] = "live"
    /\ spc[s] = "idle"
    /\ status[t] = "unborn"
    /\ sub_count' = wrapping_add(sub_count, 1)
    /\ status' = [status EXCEPT ![t] = "live"]
    /\ ri' = [ri EXCEPT ![t] = ri[s]]
    /\ ri0' = [ri0 EXCEPT ![t] = ri[s]]
    /\ skip_items' = [skip_items EXCEPT ![t] = skip_items[s]]
    /\ UNCHANGED <<flavor, ext, arcs, size, buffer, wi, is_available, pub, spc, val, res,
                   listener, sent, recvd, drain, behind, ahist>>

\* PartialEq for AtomicCounter: the two counters hold the same value
counter_eq(a, b) == a = b

\* mutant: equality looks at the ring only
eq_ring_only(a, b) == a.buffer = b.buffer

\* PartialEq for Subscriber: Arc::ptr_eq of the rings and equal read cursors
eq(a, b) == a.buffer = b.buffer /\ counter_eq(a.ri, b.ri)

\* PartialEq for Publisher: Arc::ptr_eq of the rings
pub_eq(a, b) == a.buffer = b.buffer

\* the handle of subscriber s, and a subscriber handle of another channel
\* with read cursor r
SubHandle(s) == [buffer |-> "ring", ri |-> ri[s]]

OtherSubHandle(r) == [buffer |-> "other", ri |-> r]

\* the publisher handle of the channel, and that of another channel
PubHandle == [buffer |-> "ring"]

OtherPubHandle == [buffer |-> "other"]

\* Drop for Subscriber
drop_subscriber(s) ==
    /\ status[s] = "live"
    /\ spc[s] = "idle"
    /\ sub_count' = wrapping_sub(sub_count, 1)
    /\ status' = [status EXCEPT ![s] = "dropped"]
    /\ listener' = [listener EXCEPT ![s] = "none"]
    /\ owed' = owed \ {s}
    /\ UNCHANGED <<flavor, ext, arcs, size, buffer, wi, is_available, pub, ri, skip_items,
                   spc, val, res, hist, nwi>>

\* ------------------------------------------------------------------ Spec
Next ==
    \/ broadcast_enter
    \/ broadcast_store
    \/ broadcast_inc
    \/ close
    \/ drop_publisher
    \/ \E s \in Subs : try_recv_enter(s)
    \/ \E s \in Subs : try_recv_avail(s)
    \/ \E s \in Subs : try_recv_load(s)
    \/ \E s \in Subs : try_recv_check(s)
    \/ \E s \in Subs : try_recv_set(s)
    \/ \E s \in Subs : \E k \in 0..MaxCap : set_skip_items(s, k)
    \/ \E s \in Subs : \E t \in Subs : clone(s, t)
    \/ \E s \in Subs : drop_subscriber(s)

Spec == Init /\ [][Next]_vars

\* ----------------------------------------------------- single-threaded use
\* no call of the publisher or of a subscriber is in progress
Quiet == ppc \in {"idle", "dropped"} /\ \A s \in Subs : spc[s] = "idle"

\* the channel used from one thread, as in the tests of ring_buffer.rs: a
\* call starts only when no other call is in progress
SeqNext ==
    \/ /\ Quiet
       /\ \/ broadcast_enter
          \/ close
          \/ drop_publisher
          \/ \E s \in Subs : try_recv_enter(s)
          \/ \E s \in Subs : \E k \in 0..MaxCap : set_skip_items(s, k)
          \/ \E s \in Subs : \E t \in Subs : clone(s, t)
          \/ \E s \in Subs : drop_subscriber(s)
    \/ broadcast_store
    \/ broadcast_inc
    \/ \E s \in Subs : try_recv_avail(s)
    \/ \E s \in Subs : try_recv_load(s)
    \/ \E s \in Subs : try_recv_check(s)
    \/ \E s \in Subs : try_recv_set(s)

SeqSpec == Init /\ [][SeqNext]_vars

\* single-threaded use in which the subscribers are read through
\* Iterator::next
IterInit == InitWith("iter")

IterSpec == IterInit /\ [][SeqNext]_vars

\* ------------------------------------------------ the callers' Arcs
\* the caller of subscriber s drops the i-th Arc it got from try_recv
drop_arc(s, i) ==
    /\ i \in 1..Len(held[s])
    /\ rc' = ArcDrop(rc, held[s][i])
    /\ held' = [held EXCEPT ![s] =
                   SubSeq(@, 1, i - 1) \o SubSeq(@, i + 1, Len(@))]
    /\ UNCHANGED <<flavor, ext, ring, pub, sub, listener, hist, ahist>>

\* single-threaded use in which the callers keep or drop what they received,
\* as test_arc does
ArcNext ==
    \/ /\ Quiet
       /\ \/ broadcast_enter
          \/ \E s \in Subs : try_recv_enter(s)
          \/ \E s \in Subs : \E t \in Subs : clone(s, t)
          \/ \E s \in Subs : \E i \in 1..MaxBroadcasts : drop_arc(s, i)
    \/ broadcast_store
    \/ broadcast_inc
    \/ \E s \in Subs : try_recv_avail(s)
    \/ \E s \in Subs : try_recv_load(s)
    \/ \E s \in Subs : try_recv_check(s)
    \/ \E s \in Subs : try_recv_set(s)

ArcSpec == Init /\ [][ArcNext]_vars

\* --------------------------------------- the callers' Arcs, two threads
\* a channel of capacity n after n + 1 broadcasts whose subscriber has read
\* all but the last item and kept none
MemInit == \E n \in 1..MaxCap : size = n + 1 /\ InitRead("bounded", n + 1, n)

\* the publisher on one thread and the subscribers on theirs, each caller
\* keeping what it received or dropping the oldest item it keeps
MemNext ==
    \/ broadcast_enter
    \/ broadcast_store
    \/ broadcast_inc
    \/ \E s \in Subs : try_recv_enter(s)
    \/ \E s \in Subs : try_recv_avail(s)
    \/ \E s \in Subs : try_recv_load(s)
    \/ \E s \in Subs : try_recv_check(s)
    \/ \E s \in Subs : try_recv_set(s)
    \/ \E s \in Subs : \E t \in Subs : clone(s, t)
    \/ \E s \in Subs : drop_arc(s, 1)

MemSpec == MemInit /\ [][MemNext]_vars

\* ------------------------------------------- the cursors, two threads
\* the publisher broadcasting on one thread while the subscribers receive,
\* set their skip_items and are cloned on others
CursorNext ==
    \/ broadcast_enter
    \/ broadcast_store
    \/ broadcast_inc
    \/ \E s \in Subs : try_recv_enter(s)
    \/ \E s \in Subs : try_recv_avail(s)
    \/ \E s \in Subs : try_recv_load(s)
    \/ \E s \in Subs : try_recv_check(s)
    \/ \E s \in Subs : try_recv_set(s)
    \/ \E s \in Subs : \E k \in 0..MaxCap : set_skip_items(s, k)
    \/ \E s \in Subs : \E t \in Subs : clone(s, t)

CursorSpec == Init /\ [][CursorNext]_vars

\* ------------------------------------- a publisher that never stops
\* the item of the next broadcast, named by its position; a name comes back
\* after a full turn of the index
FreshItem == wi + 1

\* Arc::new(v) in SwapSlot::store for a name that may be in use: the count
\* of a name is the number of Arcs to the items that bear it, and the names
\* no Arc refers to are forgotten
ArcNewNamed(c, v) ==
    LET d == IF v \in DOMAIN c THEN [c EXCEPT ![v] = @ + 1] ELSE ArcNew(c, v)
    IN  [u \in {x \in DOMAIN d : d[x] # 0} |-> d[u]]

\* broadcast, the sub_count check, of a publisher whose calls are not counted
broadcast_enter_endless ==
    /\ ppc = "idle"
    /\ IF sub_count = 0
       THEN /\ pres' = PResult("broadcast", "Err", FreshItem)
            /\ UNCHANGED <<ppc, object>>
       ELSE /\ ppc' = "store"
            /\ object' = FreshItem
            /\ UNCHANGED pres
    /\ UNCHANGED <<flavor, ext, arcs, ring, ncalls, sub, listener, hist, ahist>>

\* broadcast, buffer[wi % size].store(object), the items not recorded
broadcast_store_endless ==
    /\ ppc = "store"
    /\ buffer' = [buffer EXCEPT ![wi % size] = object]
    /\ rc' = ArcNewNamed(ArcDrop(rc, buffer[wi % size]), object)
    /\ object' = NoItem
    /\ ppc' = "inc"
    /\ UNCHANGED <<flavor, ext, held, size, wi, sub_count, is_available, pres, ncalls,
                   sub, listener, hist, ahist>>

\* the steps of a try_recv of subscriber s that is in progress
SubStep(s) ==
    \/ try_recv_avail(s)
    \/ try_recv_load(s)
    \/ try_recv_check(s)
    \/ try_recv_set(s)

\* the steps of a broadcast that is in progress
PubStep == broadcast_store_endless \/ broadcast_inc

\* a channel whose number of cells divides the index range, so that the
\* index of a publisher that never stops wraps without a break
LapInit == Init /\ UsizeMod % size = 0

\* a publisher that broadcasts as long as it likes beside subscribers that
\* call try_recv until they have received an item
LapNext ==
    \/ broadcast_enter_endless
    \/ broadcast_store_endless
    \/ broadcast_inc
    \/ \E s \in Subs : recvd[s] = <<>> /\ try_recv_enter(s)
    \/ \E s \in Subs : try_recv_avail(s)
    \/ \E s \in Subs : try_recv_load(s)
    \/ \E s \in Subs : try_recv_check(s)
    \/ \E s \in Subs : try_recv_set(s)

\* every thread that is inside a call is scheduled again: a call in progress
\* takes its next step
LapFairSpec ==
    /\ LapInit
    /\ [][LapNext]_vars
    /\ \A s \in Subs : WF_vars(SubStep(s))
    /\ WF_vars(PubStep)

\* ------------------------------- threads sharing the publisher handle
\* AtomicCounter::inc of the counter value c: one atomic read-modify-write
inc(c) == wrapping_add(c, 1)

\* the channel after bounded(), its handles shared by the threads of Threads
SharedInit ==
    /\ InitChannel("bounded", 0, 0)
    /\ SharersInit(Threads)
    /\ AtomicArcInit({}, {})
    /\ BareCntInit({})

\* broadcast called by thread p through &Publisher, the sub_count check
shared_broadcast_enter(p) ==
    /\ bpc[p] = "idle"
    /\ ncalls < MaxBroadcasts
    /\ ncalls' = ncalls + 1
    /\ IF sub_count = 0
       THEN /\ pres' = PResult("broadcast", "Err", ncalls + 1)
            /\ UNCHANGED <<bpc, bobj, drain>>
       ELSE /\ bpc' = [bpc EXCEPT ![p] = "index"]
            /\ bobj' = [bobj EXCEPT ![p] = ncalls + 1]
            /\ drain' = [s \in Subs |->
                            IF drain[s] \in {"open", "closed"} THEN "bad" ELSE drain[s]]
            /\ UNCHANGED pres
    /\ UNCHANGED <<flavor, hazard, bare, arcs, ring, ppc, object, sub, listener, sent, recvd, ri0,
                   behind, ahist, bidx, readers>>

\* broadcast of thread p, the wi.get() that picks the slot
shared_broadcast_index(p) ==
    /\ bpc[p] = "index"
    /\ bidx' = [bidx EXCEPT ![p] = wi]
    /\ bpc' = [bpc EXCEPT ![p] = "store"]
    /\ UNCHANGED <<flavor, hazard, bare, arcs, ring, pub, sub, listener, hist, ahist, bobj, readers>>

\* broadcast of thread p, buffer[.. % size].store(object)
shared_broadcast_store(p) ==
    /\ bpc[p] = "store"
    /\ buffer' = [buffer EXCEPT ![bidx[p] % size] = bobj[p]]
    /\ rc' = ArcNew(ArcDrop(rc, buffer[bidx[p] % size]), bobj[p])
    /\ sent' = Append(sent, bobj[p])
    /\ bobj' = [bobj EXCEPT ![p] = NoItem]
    /\ bpc' = [bpc EXCEPT ![p] = "inc"]
    /\ UNCHANGED <<flavor, hazard, bare, held, size, wi, sub_count, is_available, pub, sub, listener,
                   recvd, ri0, drain, behind, ahist, bidx, readers>>

\* the end of the broadcast of thread p, the write index becoming w
SharedBroadcastInc(p, w) ==
    /\ bpc[p] = "inc"
    /\ wi' = w
    /\ pres' = PResult("broadcast", "Ok", NoItem)
    /\ bpc' = [bpc EXCEPT ![p] = "idle"]
    /\ behind' = behind \cup Lagging(wi', ri, spc)
    /\ UNCHANGED <<flavor, hazard, bare, arcs, size, buffer, sub_count, is_available, ppc, object,
                   ncalls, sub, listener, sent, recvd, ri0, drain, ahist, bobj, bidx,
                   readers>>

\* mutant: the increment is a load and a store, the load being the one that
\* picked the slot
shared_broadcast_inc_stale(p) == SharedBroadcastInc(p, wrapping_add(bidx[p], 1))

\* broadcast of thread p, wi.inc() and return Ok
shared_broadcast_inc(p) == SharedBroadcastInc(p, inc(wi))

\* two threads broadcasting through a shared reference to the publisher
\* while the subscriber receives on a third
SharedPubNext ==
    \/ \E p \in Threads : shared_broadcast_enter(p)
    \/ \E p \in Threads : shared_broadcast_index(p)
    \/ \E p \in Threads : shared_broadcast_store(p)
    \/ \E p \in Threads : shared_broadcast_inc(p)
    \/ \E s \in Subs : try_recv_enter(s)
    \/ \E s \in Subs : try_recv_avail(s)
    \/ \E s \in Subs : try_recv_load(s)
    \/ \E s \in Subs : try_recv_check(s)
    \/ \E s \in Subs : try_recv_set(s)

SharedPubSpec == SharedInit /\ [][SharedPubNext]_vars

\* --------------------------- the last subscriber dropped beside a broadcast
\* the publisher broadcasting on one thread while the subscribers receive,
\* are cloned and are dropped on others
DropRaceNext ==
    \/ broadcast_enter
    \/ broadcast_store
    \/ broadcast_inc
    \/ \E s \in Subs : try_recv_enter(s)
    \/ \E s \in Subs : try_recv_avail(s)
    \/ \E s \in Subs : try_recv_load(s)
    \/ \E s \in Subs : try_recv_check(s)
    \/ \E s \in Subs : try_recv_set(s)
    \/ \E s \in Subs : \E t \in Subs : clone(s, t)
    \/ \E s \in Subs : drop_subscriber(s)

DropRaceSpec == Init /\ [][DropRaceNext]_vars

\* ------------------------------ threads sharing one subscriber handle
\* try_recv called by thread t through &Subscriber on handle 1, the test
\* ri.get() == wi.get(); the threads stop calling once the handle has
\* delivered as many items as the publisher can publish
shared_try_recv_enter(t) ==
    /\ status[1] = "live"
    /\ rpc[t] = "idle"
    /\ Len(recvd[1]) < MaxBroadcasts
    /\ rpc' = [rpc EXCEPT ![t] = IF ri[1] = wi THEN "avail" ELSE "load"]
    /\ UNCHANGED <<flavor, hazard, bare, writers, local_ri, rval, rres, arcs, ring, pub, sub,
                   listener, hist, ahist>>

\* try_recv of thread t, the test is_available() and the two error returns
shared_try_recv_avail(t) ==
    /\ rpc[t] = "avail"
    /\ rres' = [rres EXCEPT ![t] = IF is_available THEN Result("Empty", NoItem)
                                   ELSE Result("Disconnected", NoItem)]
    /\ rpc' = [rpc EXCEPT ![t] = "idle"]
    /\ UNCHANGED <<flavor, hazard, bare, writers, local_ri, rval, arcs, ring, pub, sub, listener,
                   hist, ahist>>

\* try_recv of thread t, local_ri = ri.get(); val = buffer[..].load()
shared_try_recv_load(t) ==
    /\ rpc[t] = "load"
    /\ local_ri' = [local_ri EXCEPT ![t] = ri[1]]
    /\ rval' = [rval EXCEPT ![t] = buffer[ri[1] % size]]
    /\ rc' = ArcClone(rc, buffer[ri[1] % size])
    /\ rpc' = [rpc EXCEPT ![t] = "check"]
    /\ UNCHANGED <<flavor, hazard, bare, writers, rres, held, ring, pub, sub, listener, hist, ahist>>

\* try_recv of thread t, the lap test on local_ri and the branch that does
\* ri.inc() and returns Ok(val.unwrap())
shared_try_recv_check(t) ==
    /\ rpc[t] = "check"
    /\ IF wrapping_sub(wi, local_ri[t]) >= size
       THEN /\ rpc' = [rpc EXCEPT ![t] = "set"]
            /\ UNCHANGED <<ri, rval, rres, recvd, held>>
       ELSE /\ ri' = [ri EXCEPT ![1] = inc(@)]
            /\ rval' = [rval EXCEPT ![t] = NoItem]
            /\ rpc' = [rpc EXCEPT ![t] = "idle"]
            /\ IF rval[t] = NoItem
               THEN /\ rres' = [rres EXCEPT ![t] = Result("Panic", NoItem)]
                    /\ UNCHANGED <<recvd, held>>
               ELSE /\ rres' = [rres EXCEPT ![t] = Result("Ok", rval[t])]
                    /\ recvd' = [recvd EXCEPT ![1] = Append(@, rval[t])]
                    /\ held' = [held EXCEPT ![1] = Append(@, rval[t])]
    /\ UNCHANGED <<flavor, hazard, bare, writers, local_ri, rc, ring, pub, status, skip_items, spc,
                   val, res, listener, sent, ri0, drain, behind, ahist>>

\* try_recv of thread t, the reposition of the shared cursor
shared_try_recv_set(t) ==
    /\ rpc[t] = "set"
    /\ ri' = [ri EXCEPT ![1] =
                 wrapping_add(wrapping_sub(wi, size), 1 + skip_items[1])]
    /\ rc' = ArcDrop(rc, rval[t])
    /\ rpc' = [rpc EXCEPT ![t] = "load"]
    /\ UNCHANGED <<flavor, hazard, bare, writers, local_ri, rval, rres, held, ring, pub, status,
                   skip_items, spc, val, res, listener, hist, ahist>>

\* two threads receiving through a shared reference to subscriber 1 while
\* the publisher broadcasts on a third
SharedSubNext ==
    \/ broadcast_enter
    \/ broadcast_store
    \/ broadcast_inc
    \/ \E t \in Threads : shared_try_recv_enter(t)
    \/ \E t \in Threads : shared_try_recv_avail(t)
    \/ \E t \in Threads : shared_try_recv_load(t)
    \/ \E t \in Threads : shared_try_recv_check(t)
    \/ \E t \in Threads : shared_try_recv_set(t)

SharedSubSpec == SharedInit /\ [][SharedSubNext]_vars

\* ------------------------------------------- AtomicArc and its hazards
\* the order in which Registry::try_transfer_drop_responsibility visits the
\* hazard slots: entry by entry, slot by slot
ScanOrder == <<<<1, 1>>, <<1, 2>>, <<2, 1>>, <<2, 2>>>>

\* ThreadEntry::allocate_slot: the first slot of the thread that holds 0
allocate_slot(r) == CHOOSE i \in HazardSlots :
                        /\ slots[r][i] = 0
                        /\ \A j \in HazardSlots : j < i => slots[r][j] # 0

\* destroy_object(obj) as called by thread t, which goes on at `ret`
\* afterwards: nothing for the null pointer, else the scan of the hazards
DestroyObject(t, obj, ret) ==
    IF obj = NullPtr
    THEN /\ hpc' = [hpc EXCEPT ![t] = ret]
         /\ dobj' = [dobj EXCEPT ![t] = NullPtr]
         /\ UNCHANGED <<dpos, dret>>
    ELSE /\ hpc' = [hpc EXCEPT ![t] = "scan"]
         /\ dobj' = [dobj EXCEPT ![t] = obj]
         /\ dpos' = [dpos EXCEPT ![t] = 1]
         /\ dret' = [dret EXCEPT ![t] = ret]

\* Drop for SharedArc { object: obj, slot } in reader thread r: the slot is
\* swapped back to 0, and unless it still held obj the object is destroyed
SharedArcDrop(r, obj, slot, ret) ==
    /\ slots' = [slots EXCEPT ![r][slot] = 0]
    /\ IF slots[r][slot] = obj
       THEN /\ hpc' = [hpc EXCEPT ![r] = ret]
            /\ dobj' = [dobj EXCEPT ![r] = NullPtr]
            /\ UNCHANGED <<dpos, dret>>
       ELSE DestroyObject(r, obj, ret)

\* AtomicArc::get in reader thread r: allocate_slot and the first load of
\* self.object
get_load(r) ==
    /\ hpc[r] = "idle"
    /\ Len(shared_arcs[r]) < Cardinality(HazardSlots)
    /\ \E i \in HazardSlots : slots[r][i] = 0
    /\ hslot' = [hslot EXCEPT ![r] = allocate_slot(r)]
    /\ hobj' = [hobj EXCEPT ![r] = atomic_object]
    /\ hpc' = [hpc EXCEPT ![r] = "protect"]
    /\ UNCHANGED <<flavor, shared, bare, atomic_object, slots, strong, shared_arcs, dobj,
                   dpos, dret, nsets, kept, ring, pub, sub, listener, hist, ahist, arcs>>

\* get, the hazard is announced: the slot, which holds 0, takes `object`
get_protect(r) ==
    /\ hpc[r] = "protect"
    /\ slots' = [slots EXCEPT ![r][hslot[r]] = hobj[r]]
    /\ hpc' = [hpc EXCEPT ![r] = "validate"]
    /\ UNCHANGED <<flavor, shared, bare, atomic_object, strong, shared_arcs, hobj, hslot,
                   dobj, dpos, dret, nsets, kept, ring, pub, sub, listener, hist, ahist, arcs>>

\* get, the second load of self.object: the SharedArc is returned when the
\* pointer is still the protected one; else it is dropped and the loop goes
\* round with the new pointer
get_validate(r) ==
    /\ hpc[r] = "validate"
    /\ IF atomic_object = hobj[r]
       THEN /\ shared_arcs' = [shared_arcs EXCEPT ![r] =
                                  Append(@, [object |-> hobj[r], slot |-> hslot[r]])]
            /\ hpc' = [hpc EXCEPT ![r] = "idle"]
            /\ hobj' = [hobj EXCEPT ![r] = NullPtr]
            /\ hslot' = [hslot EXCEPT ![r] = 1]
            /\ UNCHANGED dobj
       ELSE /\ dobj' = [dobj EXCEPT ![r] = hobj[r]]
            /\ hobj' = [hobj EXCEPT ![r] = atomic_object]
            /\ hpc' = [hpc EXCEPT ![r] = "unprotect"]
            /\ UNCHANGED <<shared_arcs, hslot>>
    /\ UNCHANGED <<flavor, shared, bare, atomic_object, slots, strong, dpos, dret,
                   nsets, kept, ring, pub, sub, listener, hist, ahist, arcs>>

\* get, drop(shared) of the SharedArc that failed the second load
get_unprotect(r) ==
    /\ hpc[r] = "unprotect"
    /\ SharedArcDrop(r, dobj[r], hslot[r], "protect")
    /\ UNCHANGED <<flavor, shared, bare, atomic_object, strong, shared_arcs, hobj, hslot,
                   nsets, kept, ring, pub, sub, listener, hist, ahist, arcs>>

\* Drop for SharedArc of the k-th SharedArc that reader thread r keeps
drop_shared_arc(r, k) ==
    /\ hpc[r] = "idle"
    /\ k \in 1..Len(shared_arcs[r])
    /\ shared_arcs' = [shared_arcs EXCEPT ![r] =
                          SubSeq(@, 1, k - 1) \o SubSeq(@, k + 1, Len(@))]
    /\ SharedArcDrop(r, shared_arcs[r][k].object, shared_arcs[r][k].slot, "idle")
    /\ UNCHANGED <<flavor, shared, bare, atomic_object, strong, hobj, hslot, nsets, kept,
                   ring, pub, sub, listener, hist, ahist, arcs>>

\* try_transfer_drop_responsibility of thread t, one hazard slot: a slot that
\* holds the pointer is marked responsible and the scan ends; after the last
\* slot the caller has to drop the Arc itself
destroy_scan(t) ==
    /\ hpc[t] = "scan"
    /\ LET e == ScanOrder[dpos[t]][1]
           i == ScanOrder[dpos[t]][2]
       IN  IF slots[e][i] = dobj[t]
           THEN /\ slots' = [slots EXCEPT ![e][i] = Responsible]
                /\ hpc' = [hpc EXCEPT ![t] = dret[t]]
                /\ dobj' = [dobj EXCEPT ![t] = NullPtr]
                /\ dpos' = [dpos EXCEPT ![t] = 1]
                /\ dret' = [dret EXCEPT ![t] = "idle"]
           ELSE /\ dpos' = [dpos EXCEPT ![t] =
                               IF dpos[t] = Len(ScanOrder) THEN 1 ELSE @ + 1]
                /\ hpc' = [hpc EXCEPT ![t] =
                              IF dpos[t] = Len(ScanOrder) THEN "release" ELSE "scan"]
                /\ UNCHANGED <<slots, dobj, dret>>
    /\ UNCHANGED <<flavor, shared, bare, atomic_object, strong, shared_arcs, hobj, hslot,
                   nsets, kept, ring, pub, sub, listener, hist, ahist, arcs>>

\* drop(Arc::from_raw(obj)) by thread t after destroy_object returned true
destroy_release(t) ==
    /\ hpc[t] = "release"
    /\ strong' = [strong EXCEPT ![dobj[t]] = @ - 1]
    /\ hpc' = [hpc EXCEPT ![t] = dret[t]]
    /\ dobj' = [dobj EXCEPT ![t] = NullPtr]
    /\ dret' = [dret EXCEPT ![t] = "idle"]
    /\ UNCHANGED <<flavor, shared, bare, atomic_object, slots, shared_arcs, hobj, hslot,
                   dpos, nsets, kept, ring, pub, sub, listener, hist, ahist, arcs>>

\* AtomicArc::set(Some(Arc::new(item))) by the writer: the new Arc is placed
\* at a free address v, the pointers are swapped, and the SharedArc of the
\* old pointer, which has no hazard slot, is dropped
set(v) ==
    /\ hpc[Writer] = "idle"
    /\ nsets < MaxBroadcasts
    /\ strong[v] = 0
    /\ nsets' = nsets + 1
    /\ strong' = [strong EXCEPT ![v] = 1]
    /\ atomic_object' = v
    /\ DestroyObject(Writer, atomic_object, "idle")
    /\ UNCHANGED <<flavor, shared, bare, slots, shared_arcs, hobj, hslot, kept,
                   ring, pub, sub, listener, hist, ahist, arcs>>

\* no object has been released more often than it was referred to, and no
\* SharedArc that a reader keeps points to a released object: from a state
\* where this fails on, the behaviour of the program is undefined
Sound ==
    /\ \A o \in Objects : strong[o] >= 0
    /\ \A r \in Threads : \A k \in DOMAIN shared_arcs[r] :
          shared_arcs[r][k].object # NullPtr => strong[shared_arcs[r][k].object] > 0

\* an AtomicArc made by AtomicArc::new(None), one writer that sets it and
\* reader threads that get SharedArcs, keep them and drop them, for as long
\* as the behaviour is defined
HazardNext ==
    /\ Sound
    /\ \/ \E v \in Objects : set(v)
       \/ \E r \in Threads : get_load(r)
       \/ \E r \in Threads : get_protect(r)
       \/ \E r \in Threads : get_validate(r)
       \/ \E r \in Threads : get_unprotect(r)
       \/ \E r \in Threads : \E k \in HazardSlots : drop_shared_arc(r, k)
       \/ \E t \in HThreads : destroy_scan(t)
       \/ \E t \in HThreads : destroy_release(t)

HazardInit ==
    /\ InitChannel("bounded", 0, 0)
    /\ size = 2
    /\ SharersInit({})
    /\ AtomicArcInit(HThreads, Objects)
    /\ BareCntInit({})

HazardSpec == HazardInit /\ [][HazardNext]_vars

\* no get, set or drop is in progress and no reader keeps a SharedArc
HazardQuiet ==
    /\ \A t \in HThreads : hpc[t] = "idle"
    /\ \A r \in Threads : shared_arcs[r] = <<>>

\* ------------------------------------------------- the slot flavours
\* the flavours of slot: flavors/arc_swap.rs, rw_lock.rs, atomic_arc.rs
SlotFlavors == {"arc_swap", "rw_lock", "atomic_arc"}

\* the cell that stands for the one slot of the arc_swap or of the rw_lock
\* flavour; the slot of the atomic_arc flavour is the AtomicArc
TheSlot == 0

\* the number of Arcs from a flavour's load that a caller keeps at most
MaxKept == 2

\* the value a caller gets from SwapSlot::load for the content c of a slot
LoadResult(c) == IF c = NoItem THEN Result("None", NoItem) ELSE Result("Some", c)

\* a store into the slot in cell i that puts the new Arc in and does with
\* the strong counts what `arcdrop` says for the Arc it replaces
SlotStore(i, arcdrop) ==
    /\ HazardQuiet
    /\ ncalls < MaxBroadcasts
    /\ ncalls' = ncalls + 1
    /\ buffer' = [buffer EXCEPT ![i] = ncalls + 1]
    /\ rc' = ArcNew(arcdrop, ncalls + 1)
    /\ UNCHANGED <<flavor, ext, held, size, wi, sub_count, is_available, ppc, object,
                   pres, sub, listener, hist, ahist>>

\* mutant: the store forgets the Arc it replaces without dropping it
rw_lock_store_leak == flavor = "rw_lock" /\ SlotStore(TheSlot, rc)

\* rw_lock flavour, store: *self.lock.write().unwrap() = Some(item.into())
rw_lock_store ==
    flavor = "rw_lock" /\ SlotStore(TheSlot, ArcDrop(rc, buffer[TheSlot]))

\* arc_swap flavour, store: self.shared.store(Some(Arc::new(item)))
arc_swap_store ==
    flavor = "arc_swap" /\ SlotStore(TheSlot, ArcDrop(rc, buffer[TheSlot]))

\* a load by thread r from the slot in cell i: a clone of the content
SlotLoad(r, i) ==
    /\ HazardQuiet
    /\ Len(held[r]) < MaxKept
    /\ res' = [res EXCEPT ![r] = LoadResult(buffer[i])]
    /\ rc' = ArcClone(rc, buffer[i])
    /\ held' = [held EXCEPT ![r] =
                   IF buffer[i] = NoItem THEN @ ELSE Append(@, buffer[i])]
    /\ UNCHANGED <<flavor, ext, ring, pub, status, ri, skip_items, spc, val, listener,
                   hist, ahist>>

\* rw_lock flavour, load: self.lock.read().unwrap().clone()
rw_lock_load(r) == flavor = "rw_lock" /\ SlotLoad(r, TheSlot)

\* arc_swap flavour, load: self.shared.load_full()
arc_swap_load(r) == flavor = "arc_swap" /\ SlotLoad(r, TheSlot)

\* atomic_arc flavour, store: self.atomic_arc.set(Some(Arc::new(item)))
atomic_arc_store(v) == flavor = "atomic_arc" /\ HazardQuiet /\ set(v)

\* atomic_arc flavour, load: the get() of self.atomic_arc.get().clone_inner()
atomic_arc_load(r) ==
    flavor = "atomic_arc" /\ HazardQuiet /\ Len(kept[r]) < MaxKept /\ get_load(r)

\* SharedArc::clone_inner in the load of thread r: the Arc is rebuilt from
\* the raw pointer, cloned, and the clone forgotten
clone_inner(r) ==
    /\ hpc[r] = "idle"
    /\ Len(shared_arcs[r]) = 1
    /\ LET o == shared_arcs[r][1].object
       IN  /\ res' = [res EXCEPT ![r] = LoadResult(o)]
           /\ strong' = IF o = NullPtr THEN strong ELSE [strong EXCEPT ![o] = @ + 1]
           /\ kept' = [kept EXCEPT ![r] = IF o = NullPtr THEN @ ELSE Append(@, o)]
    /\ hpc' = [hpc EXCEPT ![r] = "drop"]
    /\ UNCHANGED <<flavor, shared, bare, atomic_object, slots, shared_arcs, hobj, hslot,
                   dobj, dpos, dret, nsets, arcs, ring, pub, status, ri, skip_items,
                   spc, val, listener, hist, ahist>>

\* the drop of the temporary SharedArc at the end of the load of thread r
load_drop(r) ==
    /\ hpc[r] = "drop"
    /\ shared_arcs' = [shared_arcs EXCEPT ![r] = <<>>]
    /\ SharedArcDrop(r, shared_arcs[r][1].object, shared_arcs[r][1].slot, "idle")
    /\ UNCHANGED <<flavor, shared, bare, atomic_object, strong, hobj, hslot, nsets, kept,
                   ring, pub, sub, listener, hist, ahist, arcs>>

\* the caller of thread r drops the oldest Arc it got from clone_inner
drop_kept(r) ==
    /\ HazardQuiet
    /\ kept[r] # <<>>
    /\ strong' = [strong EXCEPT ![kept[r][1]] = @ - 1]
    /\ kept' = [kept EXCEPT ![r] = Tail(@)]
    /\ UNCHANGED <<flavor, shared, bare, atomic_object, slots, shared_arcs, hpc, hobj, hslot,
                   dobj, dpos, dret, nsets, ring, pub, sub, listener, hist, ahist, arcs>>

\* a slot of one of the flavours used from one thread at a time, as the
\* tests of the flavours do: a store or a load starts when the one before
\* has returned
SlotNext ==
    \/ arc_swap_store
    \/ rw_lock_store
    \/ \E v \in Objects : atomic_arc_store(v)
    \/ \E r \in Threads : arc_swap_load(r)
    \/ \E r \in Threads : rw_lock_load(r)
    \/ \E r \in Threads : atomic_arc_load(r)
    \/ \E r \in Threads : get_protect(r)
    \/ \E r \in Threads : get_validate(r)
    \/ \E r \in Threads : clone_inner(r)
    \/ \E r \in Threads : load_drop(r)
    \/ destroy_scan(Writer)
    \/ destroy_release(Writer)
    \/ \E r \in Threads : HazardQuiet /\ drop_arc(r, 1)
    \/ \E r \in Threads : drop_kept(r)

\* Slot::none() of one of the flavours
SlotInit ==
    \E f \in SlotFlavors :
        /\ InitChannel(f, 0, 0)
        /\ size = 2
        /\ SharersInit({})
        /\ AtomicArcInit(HThreads, Objects)
        /\ BareCntInit({})

SlotSpec == SlotInit /\ [][SlotNext]_vars

\* ------------------------------------------------------ the bare channel
\* AtomicCounter::get of the counter a BareSubscriber points to
sub_cnt_get(s) == IF sub_cnt[s].arc = "channel" THEN sub_count ELSE sub_cnt[s].count

\* BarePublisher::get_sub_count
get_sub_count == sub_count

\* BarePublisher::broadcast, the sub_cnt check
bare_broadcast_enter == BroadcastEnter(get_sub_count = 0)

\* BarePublisher::broadcast, buffer[wi % size].store(Some(Arc::new(object)))
bare_broadcast_store == BroadcastStore(wi % size)

\* BarePublisher::broadcast, wi.inc() and return Ok
bare_broadcast_inc == broadcast_inc

\* Clone for BareSubscriber: the counter the handle points to goes up by one,
\* and the clone gets a counter of its own that starts at that value
bare_clone(s, t) ==
    /\ status[s] = "live"
    /\ status[t] = "unborn"
    /\ sub_count' = IF sub_cnt[s].arc = "channel"
                    THEN wrapping_add(sub_count, 1) ELSE sub_count
    /\ sub_cnt' = [sub_cnt EXCEPT
                      ![s] = IF @.arc = "channel" THEN @
                             ELSE OwnCnt(wrapping_add(@.count, 1)),
                      ![t] = OwnCnt(wrapping_add(sub_cnt_get(s), 1))]
    /\ status' = [status EXCEPT ![t] = "live"]
    /\ ri' = [ri EXCEPT ![t] = ri[s]]
    /\ ri0' = [ri0 EXCEPT ![t] = ri[s]]
    /\ UNCHANGED <<flavor, shared, hazard, arcs, size, buffer, wi, is_available, pub,
                   skip_items, spc, val, res, listener, sent, recvd, drain, behind,
                   ahist>>

\* Drop for BareSubscriber: the counter the handle points to goes down by one
bare_drop(s) ==
    /\ status[s] = "live"
    /\ sub_count' = IF sub_cnt[s].arc = "channel"
                    THEN wrapping_sub(sub_count, 1) ELSE sub_count
    /\ sub_cnt' = [sub_cnt EXCEPT
                      ![s] = IF @.arc = "channel" THEN @
                             ELSE OwnCnt(wrapping_sub(@.count, 1))]
    /\ status' = [status EXCEPT ![s] = "dropped"]
    /\ UNCHANGED <<flavor, shared, hazard, arcs, size, buffer, wi, is_available, pub, ri,
                   skip_items, spc, val, res, listener, hist, ahist>>

BareInit ==
    /\ InitChannel("bare_channel", 0, 0)
    /\ SharersInit({})
    /\ AtomicArcInit({}, {})
    /\ BareCntInit(Subs)

BareNext ==
    \/ bare_broadcast_enter
    \/ bare_broadcast_store
    \/ bare_broadcast_inc
    \/ \E s, t \in Subs : bare_clone(s, t)
    \/ \E s \in Subs : bare_drop(s)

BareSpec == BareInit /\ [][BareNext]_vars

\* ------------------------------------------------ the channel of sync.rs
\* sync::Publisher::broadcast, the sub_cnt check
sync_broadcast_enter == BroadcastEnter(sub_count = 0)

\* sync::Publisher::broadcast, buffer[wi % size].store(Some(Arc::new(object)))
sync_broadcast_store == BroadcastStore(wi % size)

\* sync::Publisher::broadcast, wi.fetch_add(1), cv.notify_all() and return Ok
sync_broadcast_inc == broadcast_inc

\* Drop for sync::Publisher
sync_drop_publisher == drop_publisher

\* sync::Subscriber::try_recv, the test of pub_available
sync_try_recv_enter(s) ==
    /\ status[s] = "live"
    /\ spc[s] = "idle"
    /\ IF ~is_available
       THEN /\ res' = [res EXCEPT ![s] = Result("Disconnected", NoItem)]
            /\ UNCHANGED spc
       ELSE /\ spc' = [spc EXCEPT ![s] = "empty"]
            /\ UNCHANGED res
    /\ UNCHANGED <<flavor, ext, arcs, ring, pub, status, ri, skip_items, val, listener,
                   hist, ahist>>

\* sync::Subscriber::try_recv, the test ri == wi
sync_try_recv_empty(s) ==
    /\ spc[s] = "empty"
    /\ IF ri[s] = wi
       THEN /\ res' = [res EXCEPT ![s] = Result("Empty", NoItem)]
            /\ spc' = [spc EXCEPT ![s] = "idle"]
       ELSE /\ spc' = [spc EXCEPT ![s] = "load"]
            /\ UNCHANGED res
    /\ UNCHANGED <<flavor, ext, arcs, ring, pub, status, ri, skip_items, val, listener,
                   hist, ahist>>

\* sync::Subscriber::try_recv, buffer[ri % size].load(); None is unreachable!()
sync_try_recv_load(s) ==
    /\ spc[s] = "load"
    /\ IF buffer[ri[s] % size] = NoItem
       THEN /\ res' = [res EXCEPT ![s] = Result("Panic", NoItem)]
            /\ spc' = [spc EXCEPT ![s] = "idle"]
            /\ UNCHANGED <<val, rc>>
       ELSE /\ val' = [val EXCEPT ![s] = buffer[ri[s] % size]]
            /\ rc' = ArcClone(rc, buffer[ri[s] % size])
            /\ spc' = [spc EXCEPT ![s] = "check"]
            /\ UNCHANGED res
    /\ UNCHANGED <<flavor, ext, held, ring, pub, status, ri, skip_items, listener,
                   hist, ahist>>

\* the lap test of sync::Subscriber::try_recv with outcome `lapped`, and the
\* branch that returns Ok(some)
SyncTryRecvCheck(s, lapped) ==
    /\ spc[s] = "check"
    /\ IF lapped
       THEN /\ spc' = [spc EXCEPT ![s] = "set"]
            /\ UNCHANGED <<ri, val, res, recvd, held>>
       ELSE /\ ri' = [ri EXCEPT ![s] = wrapping_add(@, 1)]
            /\ val' = [val EXCEPT ![s] = NoItem]
            /\ res' = [res EXCEPT ![s] = Result("Ok", val[s])]
            /\ spc' = [spc EXCEPT ![s] = "idle"]
            /\ recvd' = [recvd EXCEPT ![s] = Append(@, val[s])]
            /\ held' = [held EXCEPT ![s] = Append(@, val[s])]
    /\ UNCHANGED <<flavor, ext, rc, ring, pub, status, skip_items, listener, sent, ri0,
                   drain, behind, ahist>>

\* sync::Subscriber::try_recv, the lap test wi > ri + size
sync_try_recv_check(s) == SyncTryRecvCheck(s, wi > wrapping_add(ri[s], size))

\* sync::Subscriber::try_recv, ri.store(wi - size)
sync_try_recv_set(s) ==
    /\ spc[s] = "set"
    /\ ri' = [ri EXCEPT ![s] = wrapping_sub(wi, size)]
    /\ rc' = ArcDrop(rc, val[s])
    /\ val' = [val EXCEPT ![s] = NoItem]
    /\ spc' = [spc EXCEPT ![s] = "load"]
    /\ UNCHANGED <<flavor, ext, held, ring, pub, status, skip_items, res, listener,
                   hist, ahist>>

\* sync::channel(size): a ring of exactly `size` cells
SyncInit == InitWith("sync")

SyncNext ==
    \/ sync_broadcast_enter
    \/ sync_broadcast_store
    \/ sync_broadcast_inc
    \/ sync_drop_publisher
    \/ sync_try_recv_enter(1)
    \/ sync_try_recv_empty(1)
    \/ sync_try_recv_load(1)
    \/ sync_try_recv_check(1)
    \/ sync_try_recv_set(1)

SyncSpec == SyncInit /\ [][SyncNext]_vars

\* ------------------------------------------------ index wrap-around
\* a channel whose write index is within MaxBelowTop of the top of the index
\* range, as writer_overflows_pass_usize_max_* set it, used from one thread
WrapInit == \E d \in 1..MaxBelowTop : InitAt("bounded", UsizeMod - d)

WrapSpec == WrapInit /\ [][SeqNext]_vars

\* ------------------------------------------------------------- Event
\* Event::notify_all: every registered listener is notified
notify_all(l) == [s \in Subs |-> IF l[s] = "waiting" THEN "notified" ELSE l[s]]

\* the subscribers of `o` whose listener is still registered and not notified
StillWaiting(o, l) == {s \in o : l[s] = "waiting"}

\* ------------------------------------------------------ AsyncPublisher
\* Sink::poll_ready
poll_ready ==
    /\ ppc = "idle"
    /\ pres' = PResult("poll_ready", "ReadyOk", NoItem)
    /\ UNCHANGED <<flavor, ext, arcs, ring, ppc, object, ncalls, sub, listener, hist, ahist>>

\* mutant: poll_flush without the notify_all
poll_flush_nonotify ==
    /\ ppc = "idle"
    /\ pres' = PResult("poll_flush", "ReadyOk", NoItem)
    /\ UNCHANGED <<flavor, ext, arcs, ring, ppc, object, ncalls, sub, listener, hist, ahist>>

\* Sink::poll_flush
poll_flush ==
    /\ ppc = "idle"
    /\ listener' = notify_all(listener)
    /\ pres' = PResult("poll_flush", "ReadyOk", NoItem)
    /\ nwi' = wi
    /\ owed' = StillWaiting(owed, listener')
    /\ UNCHANGED <<flavor, ext, arcs, ring, ppc, object, ncalls, sub, hist>>

\* Sink::poll_close, publisher.close()
poll_close ==
    /\ ppc = "idle"
    /\ is_available' = FALSE
    /\ ppc' = "close_flush"
    /\ UNCHANGED <<flavor, ext, arcs, size, buffer, wi, sub_count, object, pres, ncalls,
                   sub, listener, hist, ahist>>

\* mutant: poll_close returns without running poll_flush
poll_close_flush_nonotify ==
    /\ ppc = "close_flush"
    /\ pres' = PResult("poll_close", "ReadyOk", NoItem)
    /\ ppc' = "idle"
    /\ UNCHANGED <<flavor, ext, arcs, ring, object, ncalls, sub, listener, hist, ahist>>

\* Sink::poll_close, self.poll_flush(cx)
poll_close_flush ==
    /\ ppc = "close_flush"
    /\ listener' = notify_all(listener)
    /\ pres' = PResult("poll_close", "ReadyOk", NoItem)
    /\ ppc' = "idle"
    /\ nwi' = wi
    /\ owed' = StillWaiting(owed, listener')
    /\ UNCHANGED <<flavor, ext, arcs, ring, object, ncalls, sub, hist>>

\* Drop for AsyncPublisher, publisher.close()
drop_async_publisher ==
    /\ ppc = "idle"
    /\ is_available' = FALSE
    /\ ppc' = "drop_notify"
    /\ UNCHANGED <<flavor, ext, arcs, size, buffer, wi, sub_count, object, pres, ncalls,
                   sub, listener, hist, ahist>>

\* Drop for AsyncPublisher, event.notify_all(); then the Publisher is dropped
drop_async_publisher_notify ==
    /\ ppc = "drop_notify"
    /\ listener' = notify_all(listener)
    /\ ppc' = "dropped"
    /\ nwi' = wi
    /\ owed' = StillWaiting(owed, listener')
    /\ UNCHANGED <<flavor, ext, arcs, ring, object, pres, ncalls, sub, hist>>

\* ----------------------------------------------------- AsyncSubscriber
\* poll_next, the poll of the stored listener at the top of the outer loop
poll_next(s) ==
    /\ status[s] = "live"
    /\ spc[s] = "idle"
    /\ IF listener[s] = "waiting"
       THEN /\ res' = [res EXCEPT ![s] = Result("Pending", NoItem)]
            /\ UNCHANGED <<spc, listener>>
       ELSE /\ listener' = [listener EXCEPT ![s] = "none"]
            /\ spc' = [spc EXCEPT ![s] = "start"]
            /\ UNCHANGED res
    /\ UNCHANGED <<flavor, ext, arcs, ring, pub, status, ri, skip_items, val, hist, ahist>>

\* mutant: after listen() the stream is Pending at once, no second try_recv
poll_next_listen_nocheck(s) ==
    /\ spc[s] = "listen"
    /\ IF listener[s] = "notified"
       THEN /\ listener' = [listener EXCEPT ![s] = "none"]
            /\ spc' = [spc EXCEPT ![s] = "start"]
            /\ UNCHANGED res
       ELSE /\ listener' = [listener EXCEPT ![s] = "waiting"]
            /\ res' = [res EXCEPT ![s] = Result("Pending", NoItem)]
            /\ spc' = [spc EXCEPT ![s] = "idle"]
    /\ UNCHANGED <<flavor, ext, arcs, ring, pub, status, ri, skip_items, val, hist, ahist>>

\* poll_next, after Empty: listen and retry, or break and poll the listener
poll_next_listen(s) ==
    /\ spc[s] = "listen"
    /\ IF listener[s] = "none"
       THEN /\ listener' = [listener EXCEPT ![s] = "waiting"]
            /\ spc' = [spc EXCEPT ![s] = "start"]
            /\ UNCHANGED res
       ELSE IF listener[s] = "waiting"
       THEN /\ res' = [res EXCEPT ![s] = Result("Pending", NoItem)]
            /\ spc' = [spc EXCEPT ![s] = "idle"]
            /\ UNCHANGED listener
       ELSE /\ listener' = [listener EXCEPT ![s] = "none"]
            /\ spc' = [spc EXCEPT ![s] = "start"]
            /\ UNCHANGED res
    /\ UNCHANGED <<flavor, ext, arcs, ring, pub, status, ri, skip_items, val, hist, ahist>>

AsyncInit == InitWith("async_bounded")

\* one AsyncPublisher and the AsyncSubscriber made by async_bounded
AsyncNext ==
    \/ poll_ready
    \/ broadcast_enter
    \/ broadcast_store
    \/ broadcast_inc
    \/ poll_flush
    \/ poll_close
    \/ poll_close_flush
    \/ drop_async_publisher
    \/ drop_async_publisher_notify
    \/ \E s \in Subs : poll_next(s)
    \/ \E s \in Subs : try_recv_enter(s)
    \/ \E s \in Subs : try_recv_avail(s)
    \/ \E s \in Subs : try_recv_load(s)
    \/ \E s \in Subs : try_recv_check(s)
    \/ \E s \in Subs : try_recv_set(s)
    \/ \E s \in Subs : poll_next_listen(s)
    \/ \E s \in Subs : \E k \in 0..MaxCap : set_skip_items(s, k)
    \/ \E s \in Subs : drop_subscriber(s)

AsyncSpec == AsyncInit /\ [][AsyncNext]_vars

\* mutant: the clone takes over the listener of the original
async_clone_listener(s, t) ==
    /\ status[s] = "live"
    /\ spc[s] = "idle"
    /\ status[t] = "unborn"
    /\ sub_count' = wrapping_add(sub_count, 1)
    /\ status' = [status EXCEPT ![t] = "live"]
    /\ ri' = [ri EXCEPT ![t] = ri[s]]
    /\ ri0' = [ri0 EXCEPT ![t] = ri[s]]
    /\ skip_items' = [skip_items EXCEPT ![t] = skip_items[s]]
    /\ listener' = [listener EXCEPT ![t] = listener[s]]
    /\ UNCHANGED <<flavor, ext, arcs, size, buffer, wi, is_available, pub, spc, val, res,
                   sent, recvd, drain, behind, ahist>>

\* Clone for GenericAsyncSubscriber: subscriber.clone(), listener: None
async_clone(s, t) ==
    /\ status[s] = "live"
    /\ spc[s] = "idle"
    /\ status[t] = "unborn"
    /\ sub_count' = wrapping_add(sub_count, 1)
    /\ status' = [status EXCEPT ![t] = "live"]
    /\ ri' = [ri EXCEPT ![t] = ri[s]]
    /\ ri0' = [ri0 EXCEPT ![t] = ri[s]]
    /\ skip_items' = [skip_items EXCEPT ![t] = skip_items[s]]
    /\ listener' = [listener EXCEPT ![t] = "none"]
    /\ UNCHANGED <<flavor, ext, arcs, size, buffer, wi, is_available, pub, spc, val, res,
                   sent, recvd, drain, behind, ahist>>

\* one AsyncPublisher and AsyncSubscribers, clones among them, polled from
\* one thread as the tests of async_tests.rs do: a call starts only when no
\* other is in progress
AsyncCloneNext ==
    \/ /\ Quiet
       /\ \/ broadcast_enter
          \/ poll_flush
          \/ drop_async_publisher
          \/ \E s \in Subs : poll_next(s)
          \/ \E s \in Subs : \E t \in Subs : async_clone(s, t)
    \/ broadcast_store
    \/ broadcast_inc
    \/ drop_async_publisher_notify
    \/ \E s \in Subs : try_recv_enter(s)
    \/ \E s \in Subs : try_recv_avail(s)
    \/ \E s \in Subs : try_recv_load(s)
    \/ \E s \in Subs : try_recv_check(s)
    \/ \E s \in Subs : try_recv_set(s)
    \/ \E s \in Subs : poll_next_listen(s)

AsyncCloneSpec == AsyncInit /\ [][AsyncCloneNext]_vars

\* ---------------------------------------------------------- properties
RECURSIVE IsSubsequence(_, _)
IsSubsequence(a, b) ==
    IF a = <<>> THEN TRUE
    ELSE IF b = <<>> THEN FALSE
    ELSE IF Head(a) = Head(b) THEN IsSubsequence(Tail(a), Tail(b))
    ELSE IsSubsequence(a, Tail(b))

IsPrefix(a, b) == Len(a) <= Len(b) /\ a = SubSeq(b, 1, Len(a))

LastN(q, n) == SubSeq(q, Max(1, Len(q) - n + 1), Len(q))

\* position (from 0) of the item v in the publication sequence
PosOf(v) == (CHOOSE p \in 1..Len(sent) : sent[p] = v) - 1

\* index a is not before index b
NotBefore(a, b) == wrapping_sub(a, b) < UsizeMod \div 2

\* C1: the items a subscriber received are a subsequence of the publication
\* sequence, in publication order, whatever the interleaving of the
\* publisher's store and increment with the subscribers' steps.
C1_ReceivedIsSubsequence ==
    \A s \in Subs : IsSubsequence(recvd[s], sent)

\* a subscriber received two items with a gap between them
C1_Witness ==
    \E s \in Subs : Len(recvd[s]) >= 2 /\ PosOf(recvd[s][2]) > PosOf(recvd[s][1]) + 1

\* C2: a try_recv that returns Disconnected does so in a state where the
\* ring is closed and the subscriber has nothing unread (ri = wi).
C2_DisconnectedMeansDrained ==
    [][\A s \in Subs :
          (spc[s] = "avail" /\ spc'[s] = "idle" /\ res'[s].tag = "Disconnected")
              => (~is_available /\ ri[s] = wi)]_vars

\* C3: a subscriber that starts reading after the publisher closed or was
\* dropped receives the buffered items (the last len() published) in order
\* and only then Disconnected, never Empty.
C3_DrainThenDisconnected ==
    \A s \in Subs :
        drain[s] = "closed" =>
            /\ IsPrefix(recvd[s], LastN(sent, len))
            /\ res[s].tag # "Empty"
            /\ res[s].tag = "Disconnected" => recvd[s] = LastN(sent, len)

\* more was published than the ring holds, and the late reader got the rest
C3_Witness ==
    \E s \in Subs :
        /\ drain[s] = "closed"
        /\ res[s].tag = "Disconnected"
        /\ Len(sent) > len
        /\ Len(recvd[s]) = len

\* C4: a subscriber with skip_items 0 that has read nothing and drains after
\* M broadcasts completed, with no broadcast meanwhile, receives exactly the
\* last min(M, len()) items in order and then Empty.
C4_LastNRetained ==
    \A s \in Subs :
        drain[s] = "open" =>
            /\ IsPrefix(recvd[s], LastN(sent, len))
            /\ res[s].tag \in {"Empty", "Disconnected"} =>
                  /\ recvd[s] = LastN(sent, len)
                  /\ Len(recvd[s]) = Min(Len(sent), len)
                  /\ is_available => res[s].tag = "Empty"

\* the overflow case, drained to Empty
C4_Witness ==
    \E s \in Subs :
        /\ drain[s] = "open"
        /\ res[s].tag = "Empty"
        /\ Len(sent) > len
        /\ Len(recvd[s]) = len

\* C5: broadcast is refused only for want of subscribers: a call made with
\* sub_count > 0 goes on to store and returns Ok however far the
\* subscribers lag, its steps are never disabled, and poll_ready is Ready(Ok).
C5_NeverRefused ==
    [][/\ (ncalls' = ncalls + 1 /\ sub_count > 0) => ppc' = "store"
       /\ (ncalls' = ncalls + 1 /\ sub_count = 0) => pres'.tag = "Err"
       /\ ppc = "store" => (ENABLED broadcast_store) /\ ppc' \in {"store", "inc"}
       /\ ppc = "inc" => (ENABLED broadcast_inc)
       /\ (ppc = "inc" /\ ppc' # "inc") =>
              (pres' = PResult("broadcast", "Ok", NoItem) /\ ppc' = "idle")
       /\ pres'.op = "poll_ready" => pres'.tag = "ReadyOk"]_vars

\* a broadcast returned Ok while a live subscriber had more than len() unread
C5_Witness ==
    /\ pres = PResult("broadcast", "Ok", NoItem)
    /\ ppc = "idle"
    /\ \E s \in Subs : status[s] = "live" /\ wrapping_sub(wi, ri[s]) > len

\* C6: broadcast(v) returns Err(SendError(v)) exactly when sub_count is 0 at
\* the call, and then leaves wi, the slots and the subscribers unchanged.
C6_NoReceivers ==
    [][/\ ncalls' = ncalls + 1 =>
             /\ sub_count = 0 <=>
                    (pres' = PResult("broadcast", "Err", ncalls + 1) /\ ppc' = "idle")
             /\ sub_count = 0 =>
                    UNCHANGED <<ring, sub, listener, sent, recvd>>
       /\ (pres'.tag = "Err" /\ pres' # pres) => ncalls' = ncalls + 1]_vars

\* a broadcast failed after earlier ones had succeeded
C6_Witness ==
    /\ pres.tag = "Err"
    /\ sub_count = 0
    /\ sent # <<>>

\* C7: an item is returned only while it is among the len() most recent:
\* at the lap check that returns position p, wi - p <= len().
C7_OnlyLastN ==
    [][\A s \in Subs :
          recvd'[s] # recvd[s] =>
              LET v == recvd'[s][Len(recvd'[s])] IN
              /\ \E p \in 1..Len(sent) : sent[p] = v
              /\ wrapping_sub(wi, PosOf(v)) <= len]_vars

\* an item was received when it was exactly len() behind, after a lap
C7_Witness ==
    \E s \in Subs :
        /\ spc[s] = "idle"
        /\ res[s].tag = "Ok"
        /\ wrapping_sub(wi, PosOf(res[s].val)) = len
        /\ PosOf(res[s].val) > Len(recvd[s]) - 1 + ri0[s]

\* C8: a subscriber that was never more than len() behind the write index
\* during its calls received every item from its start, once and in order.
C8_KeepsUpMissesNothing ==
    \A s \in Subs :
        (status[s] # "unborn" /\ s \notin behind) =>
            recvd[s] = SubSeq(sent, ri0[s] + 1, ri[s])

\* more items than the ring holds, all received
C8_Witness ==
    \E s \in Subs :
        /\ s \notin behind
        /\ Len(recvd[s]) > len
        /\ ri[s] = wi

\* C9: a subscriber parked with a registered listener that no notify_all
\* has reached has read every message whose notify_all has been issued.
C9_NoLostWakeup ==
    \A s \in Subs :
        (status[s] = "live" /\ spc[s] = "idle" /\ listener[s] = "waiting")
            => NotBefore(ri[s], nwi)

\* the window: the listener was registered after a broadcast and its notify
C9_Witness ==
    \E s \in Subs :
        /\ spc[s] = "start"
        /\ listener[s] = "waiting"
        /\ nwi = wi
        /\ ri[s] # wi

\* C10 as stated: when a successful broadcast (start_send) has returned,
\* every subscriber that was parked at the increment has been woken.
C10_WokenByBroadcast ==
    (ppc = "idle" /\ pres = PResult("broadcast", "Ok", NoItem)) => owed = {}

\* C10 amended: after poll_flush or poll_close returned, or the publisher was
\* dropped, every subscriber parked at an earlier successful broadcast has
\* been woken.
C10_WokenByFlush ==
    (pres.op \in {"poll_flush", "poll_close"} \/ ppc = "dropped") => owed = {}

\* a subscriber parked at a broadcast was woken by the flush that followed
C10_Witness ==
    /\ pres.op = "poll_flush"
    /\ nwi = wi
    /\ \E s \in Subs :
          /\ spc[s] = "idle"
          /\ listener[s] = "notified"
          /\ res[s].tag = "Pending"
          /\ ri[s] # wi

\* the publisher's last operation was a completed poll_close, or it is dropped
Closed == ppc = "dropped" \/ (ppc = "idle" /\ pres.op = "poll_close")

C12_PendingOnlyWhenEmpty ==
    \A s \in Subs :
        (status[s] = "live" /\ spc[s] = "idle" /\ listener[s] = "waiting"
            /\ ppc = "idle")
            => (ri[s] = wi /\ is_available)

\* C12 amended: poll_next returns Ready(Some(v)) when its try_recv returns
\* Ok(v) and Ready(None) when it returns Disconnected, which happens only with
\* the publisher closed; an Empty is never returned but leads to the listener;
\* Pending is returned only on a listener that no notify_all has reached, with
\* every flushed message read and no close completed; and nothing but Pending
\* is returned while nothing is published and the publisher is available.
C12_PollMapsTryRecv ==
    /\ [](\A s \in Subs :
            /\ (status[s] = "live" /\ spc[s] = "idle" /\ listener[s] = "waiting")
                  => (NotBefore(ri[s], nwi) /\ ~Closed)
            /\ (wi = 0 /\ is_available) => res[s].tag \in {"none", "Pending"}
            /\ res[s].tag \in {"none", "Pending", "ReadySome", "ReadyNone", "Panic"})
    /\ [][\A s \in Subs :
            /\ (spc[s] = "check" /\ spc'[s] = "idle" /\ val[s] # NoItem)
                  => res'[s] = Result("ReadySome", val[s])
            /\ (spc[s] = "avail" /\ spc'[s] = "idle")
                  => (res'[s] = Result("ReadyNone", NoItem) /\ ~is_available)
            /\ (spc[s] = "avail" /\ spc'[s] = "listen")
                  => (is_available /\ res'[s] = res[s])
            /\ (res'[s].tag = "Pending" /\ res'[s] # res[s])
                  => (spc[s] = "listen" /\ listener[s] = "waiting")]_vars

\* Pending with a message unread: stored by start_send, not yet flushed
C12_Witness ==
    \E s \in Subs :
        /\ status[s] = "live"
        /\ spc[s] = "idle"
        /\ res[s].tag = "Pending"
        /\ listener[s] = "waiting"
        /\ ppc = "idle"
        /\ pres = PResult("broadcast", "Ok", NoItem)
        /\ ri[s] # wi

\* the read cursor a subscriber enters its next call with, in single-threaded
\* use: the one it was created with, or the one after its last item
EntryRi(s) ==
    IF recvd[s] = <<>> THEN ri0[s]
    ELSE wrapping_add(PosOf(recvd[s][Len(recvd[s])]), 1)

C14_RepositionLenPlusOne ==
    [][\A s \in Subs :
          (spc[s] = "set" /\ spc'[s] = "load")
              => ri'[s] = wrapping_add(wrapping_sub(wi, len), 1 + skip_items[s])]_vars

\* C14 amended: the reposition sets the read cursor to w - size + 1 + k with
\* size = len() + 1 cells, that is to w - len() + k, and the loop retries.
C14_RepositionLen ==
    [][\A s \in Subs :
          (spc[s] = "set" /\ spc'[s] # "set")
              => /\ ri'[s] = wrapping_add(wrapping_sub(wi, len), skip_items[s])
                 /\ spc'[s] = "load"]_vars

\* a subscriber that has received nothing was moved by the reposition, with
\* skip_items 1, to the newest of the two retained items
C14_Witness ==
    \E s \in Subs :
        /\ spc[s] = "load"
        /\ recvd[s] = <<>>
        /\ skip_items[s] = 1
        /\ ri[s] # ri0[s]
        /\ ri[s] = wrapping_sub(wi, 1)

\* C15: with the write index starting near the top of its range and the
\* broadcasts going on past the wrap to 0, in single-threaded use every
\* subscriber receives published items in publication order without
\* duplicates, each among the last len() published when it is received, and
\* Disconnected only with nothing unread.
C15_WrapSafe ==
    [][\A s \in Subs :
          /\ IsSubsequence(recvd'[s], sent')
          /\ recvd'[s] # recvd[s] =>
                \E p \in 1..Len(sent) :
                    /\ sent[p] = recvd'[s][Len(recvd'[s])]
                    /\ Len(sent) - p < len
          /\ (spc[s] = "avail" /\ spc'[s] = "idle" /\ res'[s].tag = "Disconnected")
                => ri[s] = wi]_vars

\* the subscriber handles that exist
Live == {s \in Subs : status[s] = "live"}

\* C16: sub_count is the number of live subscriber handles: 1 after
\* construction, one more with each clone, one less with each drop, and so
\* never taken below zero.
C16_SubCountIsLiveHandles == sub_count = Cardinality(Live)

\* after a clone and two drops no handle is left and the count is back at 0
C16_Witness ==
    /\ \A s \in Subs : status[s] = "dropped"
    /\ sub_count = 0

\* RingBuffer::try_recv run to its end with no other call in between, for
\* the read cursor r and skip_items k
WouldRecv(r, k) ==
    IF r = wi
    THEN (IF is_available THEN Result("Empty", NoItem)
          ELSE Result("Disconnected", NoItem))
    ELSE IF wrapping_sub(wi, r) >= size
    THEN Result("Ok", buffer[wrapping_add(wrapping_sub(wi, size), 1 + k) % size])
    ELSE Result("Ok", buffer[r % size])

\* C17: Clone gives the new handle the read cursor and skip_items of the
\* original at that moment and leaves the original as it is; in
\* single-threaded use a receive returns what try_recv gives for the cursor
\* the call was entered with, so the first receive of a clone returns what
\* the original, if it has not moved since, would receive at that moment; and
\* nothing at a position before the clone's starting cursor is delivered to it.
C17_CloneStartsAtOriginal ==
    /\ [](\A s \in Subs : \A i \in 1..Len(recvd[s]) :
              NotBefore(PosOf(recvd[s][i]), ri0[s]))
    /\ [][\A t \in Subs :
            /\ (status[t] = "unborn" /\ status'[t] = "live") =>
                  \E s \in Subs \ {t} :
                      /\ status[s] = "live"
                      /\ ri'[t] = ri[s] /\ skip_items'[t] = skip_items[s]
                      /\ ri'[s] = ri[s] /\ skip_items'[s] = skip_items[s]
                      /\ recvd'[t] = <<>>
            /\ (spc[t] = "check" /\ spc'[t] = "idle") =>
                  /\ res'[t] = WouldRecv(EntryRi(t), skip_items[t])
                  /\ \A s \in Subs \ {t} :
                        (recvd[t] = <<>> /\ status[s] = "live"
                            /\ ri[s] = ri0[t] /\ skip_items[s] = skip_items[t])
                            => res'[t] = WouldRecv(ri[s], skip_items[s])]_vars

\* the original read one item, was cloned, and then both received the next
C17_Witness ==
    /\ status[2] = "live"
    /\ ri0[2] >= 1
    /\ Len(recvd[1]) >= 2
    /\ recvd[2] = <<recvd[1][Len(recvd[1])]>>
    /\ res[2].tag = "Ok"

\* C18: a step of try_recv made by one subscriber leaves wi, the slots,
\* sub_count, is_available and every other subscriber's cursor, skip_items
\* and received items as they are, and moves its own cursor only; and two
\* subscribers that start at 0 and read after the same broadcasts, none
\* following, receive the same sequence.
C18_SubscribersIndependent ==
    /\ [](\A s \in Subs : \A t \in Subs :
              (drain[s] \in {"open", "closed"} /\ drain[t] \in {"open", "closed"}) =>
                  /\ IsPrefix(recvd[s], recvd[t]) \/ IsPrefix(recvd[t], recvd[s])
                  /\ (res[s].tag \in {"Empty", "Disconnected"}
                        /\ res[t].tag \in {"Empty", "Disconnected"})
                        => recvd[s] = recvd[t])
    /\ [][\A s \in Subs :
            spc'[s] # spc[s] =>
                /\ UNCHANGED <<size, buffer, wi, sub_count, is_available>>
                /\ \A t \in Subs \ {s} :
                      /\ ri'[t] = ri[t]
                      /\ skip_items'[t] = skip_items[t]
                      /\ recvd'[t] = recvd[t]
                      /\ status'[t] = status[t]
                /\ skip_items'[s] = skip_items[s]]_vars

\* two subscribers each drained the same two retained items after an overflow
C18_Witness ==
    /\ drain[1] = "open" /\ drain[2] = "open"
    /\ res[1].tag = "Empty" /\ res[2].tag = "Empty"
    /\ Len(sent) > len
    /\ Len(recvd[1]) = 2
    /\ recvd[1] = recvd[2]

\* C19: is_available, true at construction, is false after every close() and
\* after the drop of the publisher, is changed by nothing else, and once
\* false is never true again; a close() of a closed channel changes nothing,
\* and a drop after close leaves the ring as it is.
C19_ClosedForGood ==
    /\ is_available = TRUE
    /\ [][/\ ~is_available => ~is_available'
          /\ (close \/ drop_publisher) => ~is_available'
          /\ is_available' # is_available => (close \/ drop_publisher)
          /\ (~is_available /\ close) => UNCHANGED vars
          /\ (~is_available /\ drop_publisher) => UNCHANGED <<ring, sub, hist>>]_vars

\* a broadcast is in progress on a channel that was closed before, and the
\* flag is still false
C19_Witness ==
    /\ ~is_available
    /\ ppc = "inc"

\* the number of slots that hold item v
InRing(v) == Cardinality({i \in DOMAIN buffer : buffer[i] = v})

\* the number of Arcs of item v that callers got from try_recv and keep
Holders(v) ==
    LET n(s) == Cardinality({i \in 1..Len(held[s]) : held[s][i] = v})
    IN  n(1) + n(2)

\* the number of try_recv calls that have loaded item v and not yet returned
InFlight(v) ==
    Cardinality({s \in Subs : spc[s] \in {"check", "set"} /\ val[s] = v})

\* C20: the strong count of every item is the ring's reference, if the item
\* is still in the ring, plus the references callers got from try_recv and
\* keep (plus the one a try_recv in progress has loaded); the ring holds
\* exactly one reference to the item of position p from its store until the
\* store of position p + len() + 1, and the step that overwrites it takes its
\* count down by exactly one.
C20_RefCount ==
    /\ [](\A v \in DOMAIN rc :
            /\ rc[v] = InRing(v) + Holders(v) + InFlight(v)
            /\ \E p \in 1..Len(sent) :
                  /\ sent[p] = v
                  /\ InRing(v) = IF Len(sent) - p <= len THEN 1 ELSE 0)
    /\ [][\A v \in DOMAIN rc :
            (\E i \in DOMAIN buffer : buffer[i] = v /\ buffer'[i] # v)
                => rc'[v] = rc[v] - 1]_vars

\* capacity 1, as in test_arc: both callers keep the first item; it stayed
\* in the ring over the second broadcast and the third has overwritten it
C20_Witness ==
    /\ len = 1
    /\ Len(sent) = 3
    /\ InRing(sent[1]) = 0
    /\ Holders(sent[1]) = 2
    /\ rc[sent[1]] = 2

\* the items whose strong count is not 0: the message objects still alive
Alive == {v \in DOMAIN rc : rc[v] > 0}

\* the caller of subscriber s keeps at most the item it received last, and
\* nothing once the handle is dropped
HoldsAtMostLast(s) ==
    /\ Len(held[s]) <= 1
    /\ status[s] # "live" => held[s] = <<>>
    /\ Len(held[s]) = 1 =>
          /\ recvd[s] # <<>>
          /\ held[s][1] = recvd[s][Len(recvd[s])]

\* a try_recv of subscriber s has loaded an item and not yet returned
Loaded(s) == spc[s] \in {"check", "set"} /\ val[s] # NoItem

NoReceivers == is_available /\ sub_count = 0

\* C22 as stated: from the NoReceivers state the channel can return to Active
\* through a new subscriber clone: in that state some handle can be cloned.
C22_CloneFromNoReceivers ==
    (NoReceivers /\ \E t \in Subs : status[t] = "unborn")
        => \E s \in Subs : \E t \in Subs : ENABLED clone(s, t)

\* C22, amended: in the NoReceivers state no subscriber handle is left to
\* clone; sub_count stays 0, every broadcast made from then on is refused,
\* and the state is left only by the close or the drop of the publisher.
C22_NoReceiversStays ==
    /\ [](sub_count = 0 => Live = {})
    /\ [][/\ sub_count = 0 => sub_count' = 0
          /\ (sub_count = 0 /\ pres' # pres) =>
                pres' = PResult("broadcast", "Err", ncalls')
          /\ (NoReceivers /\ ~NoReceivers') => (close \/ drop_publisher)]_vars

\* a broadcast succeeded, the last subscriber was dropped, and the next
\* broadcast was refused on the open channel
C22_Witness ==
    /\ NoReceivers
    /\ sent # <<>>
    /\ pres = PResult("broadcast", "Err", ncalls)
    /\ \E s \in Subs : status[s] = "unborn"

\* a step that runs Event::notify_all
NotifyStep == poll_flush \/ poll_close_flush \/ drop_async_publisher_notify

\* C23: an async subscriber has one listener cell, filled by listen() only
\* when it is empty; a poll_next that returned Pending has left a listener
\* in it, one that returned Ready has left it empty, a clone starts with it
\* empty, and a notify_all notifies the listener of a pending subscriber,
\* which nothing notifies a second time.
C23_OneListener ==
    /\ [](\A s \in Subs :
            /\ listener[s] \in {"none", "waiting", "notified"}
            /\ status[s] # "live" => listener[s] = "none"
            /\ (status[s] = "live" /\ spc[s] = "idle") =>
                  /\ res[s].tag = "Pending" => listener[s] # "none"
                  /\ res[s].tag \in {"ReadySome", "ReadyNone"}
                        => listener[s] = "none")
    /\ [][\A s \in Subs :
            /\ (listener'[s] = "waiting" /\ listener[s] # "waiting")
                  => listener[s] = "none" /\ spc[s] = "listen"
            /\ (status[s] = "unborn" /\ status'[s] = "live")
                  => listener'[s] = "none"
            /\ (spc'[s] = "idle" /\ res'[s].tag = "Pending"
                  /\ (spc[s] # "idle" \/ poll_next(s)))
                  => listener'[s] = "waiting" /\ listener[s] = "waiting"
            /\ (NotifyStep /\ listener[s] = "waiting")
                  => listener'[s] = "notified"
            /\ (listener'[s] = "notified" /\ listener[s] # "notified")
                  => NotifyStep /\ listener[s] = "waiting"
            /\ (NotifyStep /\ listener[s] = "notified")
                  => listener'[s] = "notified"]_vars

\* a subscriber is Pending with its listener registered, and its clone, made
\* in that state, has none
C23_Witness ==
    /\ status[1] = "live" /\ spc[1] = "idle"
    /\ res[1].tag = "Pending" /\ listener[1] = "waiting"
    /\ status[2] = "live" /\ ri0[2] = ri[1] /\ listener[2] = "none"
    /\ res[2].tag = "none"
    /\ sent # <<>>

\* the read cursor after a try_recv run from start to end on the channel as
\* it is, entered with read cursor r and skip_items k
WouldRi(r, k) ==
    IF r = wi THEN r
    ELSE IF wrapping_sub(wi, r) >= size
    THEN wrapping_add(wrapping_add(wrapping_sub(wi, size), 1 + k), 1)
    ELSE wrapping_add(r, 1)

\* C24: a call of Iterator::next yields Some(v) exactly when a try_recv at
\* the same cursor returns Ok(v) and None exactly when that try_recv returns
\* Empty or Disconnected, which ends the iteration; the call ends after steps
\* of its own, and it leaves the read cursor where that try_recv leaves it,
\* unmoved on None.
C24_IterationIsTryRecv ==
    /\ [](\A s \in Subs :
            /\ spc[s] = "idle" => res[s].tag \in {"none", "Some", "None"}
            /\ spc[s] # "idle" =>
                  ENABLED (\/ try_recv_avail(s) \/ try_recv_load(s)
                           \/ try_recv_check(s) \/ try_recv_set(s)))
    /\ [][\A s \in Subs :
            (spc[s] # "idle" /\ spc'[s] = "idle") =>
                LET r == WouldRecv(EntryRi(s), skip_items[s])
                IN  /\ r.tag = "Ok" =>
                          /\ res'[s] = Result("Some", r.val)
                          /\ recvd'[s] = Append(recvd[s], r.val)
                    /\ r.tag \in {"Empty", "Disconnected"} =>
                          /\ res'[s] = Result("None", NoItem)
                          /\ recvd'[s] = recvd[s]
                          /\ ri'[s] = EntryRi(s)
                    /\ ri'[s] = WouldRi(EntryRi(s), skip_items[s])]_vars

\* an iteration yielded two items and ended with None on the open channel,
\* the cursor at the write index
C24_Witness ==
    \E s \in Subs :
        /\ flavor = "iter"
        /\ spc[s] = "idle"
        /\ Len(recvd[s]) = 2
        /\ res[s] = Result("None", NoItem)
        /\ is_available
        /\ ri[s] = wi

Lapped(s) == wrapping_sub(wi, ri[s]) >= size

\* C26: a try_recv about to return Ok from the loop iteration it began with
\* cursor r holds the message published at position r, and the message it
\* returned is the one at the position before its cursor; while the value of
\* position r + N + 1 sits in slot r mod (N + 1) with wi not yet incremented,
\* a call at cursor r finds itself lapped and returns nothing from that slot.
C26_ReturnsPositionR ==
    \A s \in Subs :
        /\ (spc[s] = "check" /\ ~Lapped(s)) =>
              /\ ri[s] < Len(sent)
              /\ val[s] = sent[ri[s] + 1]
        /\ (status[s] = "live" /\ spc[s] = "idle" /\ res[s].tag = "Ok") =>
              /\ ri[s] >= 1
              /\ res[s].val = sent[ri[s]]
        /\ (ppc = "inc" /\ spc[s] \in {"load", "check"}
              /\ ri[s] % size = wi % size) =>
              /\ Lapped(s)
              /\ sent[wi + 1] # sent[ri[s] + 1]

\* the publisher has stored the third message into the slot a subscriber at
\* cursor 0 reads and has not incremented wi; the subscriber has loaded it
C26_Witness ==
    \E s \in Subs :
        /\ ppc = "inc"
        /\ spc[s] = "check"
        /\ ri[s] + size = wi
        /\ val[s] = sent[wi + 1]
        /\ val[s] # sent[ri[s] + 1]

\* C27: with the one publisher, a try_recv never has an empty slot in hand
\* at its lap test, so val.unwrap() never panics, in any interleaving with
\* broadcast.
C27_NoEmptyUnwrap ==
    \A s \in Subs :
        /\ res[s].tag # "Panic"
        /\ spc[s] = "check" => val[s] # NoItem
        /\ spc[s] = "load" => buffer[ri[s] % size] # NoItem

\* a try_recv is about to unwrap the first item while the second broadcast
\* is between its sub_count test and its store, the other slots still empty
C27_Witness ==
    \E s \in Subs :
        /\ spc[s] = "check" /\ ~Lapped(s)
        /\ ppc = "store"
        /\ wi = 1
        /\ \E i \in DOMAIN buffer : buffer[i] = NoItem

\* C28: for every position p with max(0, wi - (N + 1)) <= p < wi, slot
\* p mod (N + 1) holds the message published at position p, except that
\* after the store of a broadcast and before its wi.inc() the slot of the
\* oldest such position holds the message of that broadcast; a slot of a
\* position at or above wi that was never written is empty.
C28_SlotsHoldWindow ==
    /\ Len(sent) = wi + (IF ppc = "inc" THEN 1 ELSE 0)
    /\ \A p \in Max(0, wi - size)..(wi - 1) :
          buffer[p % size] = IF ppc = "inc" /\ p = wi - size
                             THEN sent[wi + 1]
                             ELSE sent[p + 1]
    /\ \A i \in DOMAIN buffer :
          i >= wi => buffer[i] = IF ppc = "inc" /\ i = wi
                                 THEN sent[wi + 1]
                                 ELSE NoItem

\* the store of a broadcast has replaced the oldest retained message and
\* wi is not yet incremented
C28_Witness ==
    /\ ppc = "inc"
    /\ wi >= size
    /\ buffer[wi % size] = sent[wi + 1]
    /\ buffer[(wi + 1) % size] = sent[wi - size + 2]

\* C29: the read cursor of a subscriber never decreases and never passes
\* wi; the step that returns Ok advances it by exactly one; the reposition
\* of a lapped subscriber moves it strictly forward, to wi - 1 at most; the
\* return of Empty or Disconnected, and every step that is not one of its
\* own try_recv, leave it as it is.
C29_CursorMonotone ==
    /\ [](\A s \in Subs : ri[s] <= wi)
    /\ [][\A s \in Subs :
            /\ status'[s] = "live" => ri'[s] >= ri[s]
            /\ (status[s] = "live" /\ res'[s].tag = "Ok"
                  /\ spc[s] = "check" /\ spc'[s] = "idle")
                  => ri'[s] = ri[s] + 1
            /\ (spc[s] = "set" /\ spc'[s] # "set")
                  => ri'[s] > ri[s] /\ ri'[s] <= wi - 1
            /\ (spc[s] = "avail" /\ spc'[s] = "idle")
                  => /\ ri'[s] = ri[s]
                     /\ res'[s].tag \in {"Empty", "Disconnected"}
            /\ (status[s] = "live" /\ ri'[s] # ri[s])
                  => spc[s] \in {"check", "set"}]_vars

\* a lapped subscriber has been repositioned to wi - 1 while a broadcast is
\* in progress
C29_Witness ==
    \E s \in Subs :
        /\ spc[s] = "load"
        /\ ri[s] = wi - 1
        /\ ri[s] > ri0[s]
        /\ recvd[s] = <<>>
        /\ ppc # "idle"

\* C30 as stated: try_recv is wait-free, every call returns after steps of
\* its own whatever the publisher does: a call in progress, scheduled again
\* and again, returns.
C30_WaitFree ==
    \A s \in Subs : (spc[s] # "idle") ~> (spc[s] = "idle")

\* C30, amended: broadcast is wait-free and try_recv is lock-free: a
\* broadcast in progress returns, and a try_recv in progress returns unless
\* the publisher completes broadcasts again and again beside it; a call of
\* either in progress always has its next step enabled, it waits for nothing.
C30_LockFree ==
    /\ [](\A s \in Subs : spc[s] # "idle" => ENABLED SubStep(s))
    /\ [](ppc \in {"store", "inc"} => ENABLED PubStep)
    /\ (ppc # "idle") ~> (ppc = "idle")
    /\ \A s \in Subs :
          \/ []<><<broadcast_inc>>_vars
          \/ (spc[s] # "idle") ~> (spc[s] = "idle")

\* a call that has repositioned its cursor once is found lapped again
C30_Witness ==
    \E s \in Subs :
        /\ recvd[s] = <<>>
        /\ spc[s] = "set"
        /\ ri[s] # ri0[s]

\* C31: Disconnected is final for a subscriber: once one of its try_recv
\* calls has returned Disconnected, every later try_recv of that subscriber
\* returns Disconnected too, whatever the publisher does, close() followed
\* by further broadcasts included
C31_DisconnectedIsFinal ==
    [][\A s \in Subs :
          res[s].tag = "Disconnected" => res'[s].tag = "Disconnected"]_vars

\* the broadcasts that threads sharing the publisher have in progress
InProgress == {p \in Threads : bpc[p] # "idle"}

\* C32: when two broadcast calls run concurrently on the same ring, the
\* write index never decreases and is incremented exactly once per
\* successful broadcast: it moves by one, only at the end of a broadcast, and
\* equals the number of broadcasts that have returned Ok, even though both
\* calls may store into the same slot
C32_OneIncrementPerBroadcast ==
    /\ [](sub_count > 0 /\ wi = ncalls - Cardinality(InProgress))
    /\ [][/\ wi' \in {wi, wi + 1}
          /\ wi' = wi + 1 <=> \E p \in Threads : shared_broadcast_inc(p)]_vars

\* both threads have stored into the same slot, the second item replacing
\* the first, and neither has incremented the write index yet
C32_Witness ==
    /\ \A p \in Threads : bpc[p] = "inc"
    /\ bidx[1] = bidx[2]
    /\ Len(sent) >= 2
    /\ \A i \in DOMAIN buffer : buffer[i] # sent[Len(sent) - 1]

\* C33: when the drop of the last subscriber races with a broadcast, at most
\* one message is stored into the ring with no receiver left: from the
\* decrement that brings sub_count to 0 on, the count stays 0, a broadcast
\* that makes its sub_count check returns NoReceivers and stores nothing,
\* and the only store still made is that of a broadcast that had passed its
\* check before
C33_AtMostOneOrphan ==
    /\ \A k \in 0..MaxBroadcasts :
          [](sub_count = 0 /\ Len(sent) = k => [](Len(sent) <= k + 1))
    /\ \A k \in 0..MaxBroadcasts :
          [](sub_count = 0 /\ ppc # "store" /\ Len(sent) = k => [](Len(sent) = k))
    /\ [][sub_count = 0 =>
            /\ sub_count' = 0
            /\ broadcast_enter =>
                  /\ pres' = PResult("broadcast", "Err", ncalls')
                  /\ ppc' = "idle"
                  /\ UNCHANGED <<buffer, wi, sent, rc>>]_vars

\* the last subscriber, having received the first item, was dropped while the
\* second broadcast was between its sub_count check and its store: the item
\* is about to be stored with no receiver left
C33_Witness ==
    /\ sub_count = 0
    /\ \A s \in Subs : status[s] # "live"
    /\ ppc = "store"
    /\ object = 2
    /\ sent = <<1>>
    /\ \E s \in Subs : recvd[s] = <<1>>

\* the handle has never been a lap behind: no more items were published than
\* the ring keeps
NeverLapped == Len(sent) <= len /\ ncalls <= len

\* C34: each position is delivered at most once per subscriber handle even
\* when try_recv is called concurrently from several threads through a
\* shared reference to the handle: no item is returned twice, and the cursor
\* does not skip an undelivered position (a handle that was never lapped has
\* received exactly the items below its cursor, in order)
C34_OncePerHandle ==
    /\ \A i, j \in DOMAIN recvd[1] : i # j => recvd[1][i] # recvd[1][j]
    /\ NeverLapped => /\ ri[1] <= Len(sent)
                      /\ recvd[1] = SubSeq(sent, 1, ri[1])

\* C35: in the hazard-pointer slot, under any interleaving of the readers'
\* get() and drop of the SharedArcs with the writer's set(): an object that a
\* reader has protected and validated is not released while the reader's
\* SharedArc is alive, no object is released more often than the slot
\* referred to it, the object the slot holds is alive, and when all is quiet
\* every object the slot held before has been released and no hazard is left
C35_HazardSafe ==
    /\ Sound
    /\ atomic_object # NullPtr => strong[atomic_object] > 0
    /\ HazardQuiet =>
          /\ \A o \in Objects : strong[o] = IF o = atomic_object THEN 1 ELSE 0
          /\ \A r \in Threads : \A i \in HazardSlots : slots[r][i] = 0

\* the strong count c with one more Arc to the content v of a slot
OneMore(c, v) == [u \in DOMAIN c |-> IF u = v THEN c[u] + 1 ELSE c[u]]

\* C36: for every slot flavour: a slot created by none() is empty; a store
\* makes its value the content of the slot, held by one new reference, and
\* releases the slot's reference to the value it replaces; a load returns a
\* reference to the content, that is to the most recently stored value,
\* leaves the content unchanged and adds exactly one reference
C36_SlotFlavors ==
    /\ buffer[TheSlot] = NoItem /\ atomic_object = NullPtr
    /\ [][/\ (arc_swap_store \/ rw_lock_store) =>
                /\ buffer'[TheSlot] = ncalls'
                /\ rc'[ncalls'] = 1
                /\ \A v \in DOMAIN rc :
                      rc'[v] = IF v = buffer[TheSlot] THEN rc[v] - 1 ELSE rc[v]
          /\ \A r \in Threads : (arc_swap_load(r) \/ rw_lock_load(r)) =>
                /\ buffer' = buffer
                /\ res'[r] = IF buffer[TheSlot] = NoItem THEN Result("None", NoItem)
                             ELSE Result("Some", buffer[TheSlot])
                /\ rc' = OneMore(rc, buffer[TheSlot])
          /\ \A v \in Objects : atomic_arc_store(v) =>
                /\ atomic_object' = v
                /\ strong' = [strong EXCEPT ![v] = 1]
                /\ dobj'[Writer] = atomic_object
          /\ hpc[Writer] # "idle" =>
                /\ atomic_object' = atomic_object
                /\ slots' = slots
                /\ hpc'[Writer] = "idle" =>
                      strong' = [strong EXCEPT ![dobj[Writer]] = @ - 1]
                /\ hpc'[Writer] # "idle" => strong' = strong
          /\ \A r \in Threads : hpc[r] # "idle" \/ shared_arcs[r] # <<>> =>
                /\ atomic_object' = atomic_object
                /\ get_validate(r) => shared_arcs'[r] # <<>>
                /\ clone_inner(r) =>
                      /\ res'[r] = IF atomic_object = NullPtr
                                   THEN Result("None", NoItem)
                                   ELSE Result("Some", atomic_object)
                      /\ strong' = OneMore(strong, atomic_object)
                /\ ~clone_inner(r) => strong' = strong
                /\ load_drop(r) =>
                      /\ hpc'[r] = "idle"
                      /\ \A i \in HazardSlots : slots'[r][i] = 0]_vars

\* an atomic_arc slot after two stores and a load: the load has returned the
\* second value, which has two references, and the first has none left
C36_Witness ==
    /\ flavor = "atomic_arc"
    /\ HazardQuiet
    /\ nsets = 2
    /\ atomic_object # NullPtr
    /\ res[1] = Result("Some", atomic_object)
    /\ strong[atomic_object] = 2
    /\ \A o \in Objects \ {atomic_object} : strong[o] = 0


\* the live BareSubscriber handles
LiveSubs == {s \in Subs : status[s] = "live"}

\* C37: for the bare channel, after any sequence of BareSubscriber clones and
\* drops get_sub_count is the number of live subscribers, and a broadcast
\* that starts when the original subscriber and all its clones have been
\* dropped returns Err(SendError)
C37_SubCountIsLive ==
    /\ [](get_sub_count = Cardinality(LiveSubs))
    /\ [][(LiveSubs = {} /\ bare_broadcast_enter) => pres'.tag = "Err"]_vars


\* C38: for the channel of sync.rs, under any interleaving of the steps of
\* broadcast with the subscriber's try_recv, the subscriber receives values
\* in publication order without duplicates, and a try_recv that returns a
\* value from a cursor at most size positions behind wi returns the value
\* published at the cursor's position
C38_SyncInOrder ==
    /\ [](\A i, j \in 1..Len(recvd[1]) : i < j => recvd[1][i] < recvd[1][j])
    /\ [][(sync_try_recv_check(1) /\ ri'[1] # ri[1])
            => recvd'[1] = Append(recvd[1], ri[1] + 1)]_vars

====
